---- MODULE Spec2Model ----
(***************************************************************************)
(* Credential lifecycle, retrying request executor and webhook handler of  *)
(* the weixin SDK (src/weixin.go).                                         *)
(*                                                                         *)
(* One background goroutine (createAccessToken) owns the access token and  *)
(* hands it to readers over the unbuffered channel tokenChan.  Readers are *)
(* GetAccessToken, RefreshAccessToken and the four executors               *)
(* sendGetRequest, postRequest, uploadMedia and downloadMedia.             *)
(*                                                                         *)
(* Time is a discrete clock `now`; a token is fresh at time t exactly when *)
(* time.Since(token.Expires).Seconds() < 0, that is t < token.Expires.     *)
(*                                                                         *)
(* Specifications:                                                         *)
(*   Spec      two caller goroutines beside createAccessToken              *)
(*   SpecLog   one RefreshAccessToken call beside one GetAccessToken or    *)
(*             RefreshAccessToken call, and a log of tokenChan             *)
(*   SpecSent  one postRequest call after one GetAccessToken call, and a   *)
(*             log of the tokens it sent                                   *)
(*   SpecExec  one caller goroutine making every call, one after the other *)
(*   SpecUpload one UploadMedia call and the file part of each HTTP call   *)
(*   SpecFair  RefreshAccessToken beside a reader, with the fairness of    *)
(*             the scheduler and of the channel                            *)
(*   SpecTimed         RefreshAccessToken beside GetAccessToken, recording *)
(*                     when the token endpoint last answered               *)
(*   SpecTicket        createJsAPITicket beside createAccessToken          *)
(*   SpecTicketRefresh SpecTicket with one RefreshAccessToken call         *)
(*   SpecAccess        GetAccessToken and GetJsAPITicket calls, one after  *)
(*                     the other, beside both background goroutines        *)
(*   SpecHTTP          one ServeHTTP call at a time, any request           *)
(*   SpecSign          the signature check of ServeHTTP over every token,  *)
(*                     timestamp, nonce and signature                      *)
(*   SpecRoute         HandleFunc registrations, then one message or event *)
(*                     routed to a handler that replies                    *)
(*   SpecLive          GetAccessToken calls beside GetJsAPITicket calls    *)
(*                     and both background goroutines, with the fairness   *)
(*                     of the scheduler, of the channels and of HTTP calls *)
(*                     that return                                         *)
(*   SpecNew           a client created with or without credentials        *)
(*   SpecCalls         every call that reads a credential, on a client     *)
(*                     created with or without credentials                 *)
(*   SpecNet           the calls that go to the network, with the fairness *)
(*                     of the scheduler and none for the remote side       *)
(*   SpecStore         the in-memory and the Redis cache store             *)
(*                     (src/cachestore.go)                                 *)
(*                                                                         *)
(* ServeHTTP works on bytes: base64, CBC chaining, PKCS#7 and the length   *)
(* header are computed; the AES block cipher is a keyed bijection on       *)
(* 16-byte blocks and SHA-1 is collision-free.                             *)
(***************************************************************************)
EXTENDS Integers, Sequences, FiniteSets, TLC

\* ---------------------------------------------------------------- bounds
MaxTime == 3            \* the clock runs over 1..MaxTime
MaxTTL == 2             \* expires_in answered by the token endpoint: 1..MaxTTL
CountCap == 2           \* authsSince and servedAhead count up to this many
MaxStr == 3             \* timestamp and nonce are strings of up to this many bytes
MaxRoutes == 2          \* HandleFunc is called up to this many times

\* ------------------------------------------------------ program constants
retryMaxN == 3          \* weixin.go:98
ErrTokenExpired == 42001 \* weixin.go:1052  "access_token timeout and retry"

\* --------------------------------------------------------------- universes
Procs == {"p1", "p2"}                 \* caller goroutines
TicketProc == "tk"                    \* the createJsAPITicket goroutine
Goroutines == Procs \cup {TicketProc} \* every goroutine that reads tokenChan
TokenStrings == {"tA", "tB"}          \* access_token strings the platform issues
ErrorCodes == {0, ErrTokenExpired, 40001, -1}   \* errcode values of a reply envelope

Executors == {"sendGetRequest", "postRequest", "uploadMedia", "downloadMedia"}
Ops == {"GetAccessToken", "RefreshAccessToken"} \cup Executors

VARIABLES
    now,            \* wall clock (time.Now())
    token,          \* createAccessToken's local `token`
    refreshToken,   \* wx.refreshToken (int32, accessed atomically)
    bpc,            \* position of createAccessToken
    iter,           \* what the current loop iteration of createAccessToken did
    proc,           \* per goroutine that reads tokenChan: its call in progress
    refreshedAt,    \* when the token endpoint last answered with a token (0: it has not)
    ticket,         \* createJsAPITicket's local `ticket`
    tpc,            \* position of createJsAPITicket
    titer,          \* what the current loop iteration of createJsAPITicket did
    srv,            \* the ServeHTTP call in progress
    appID,          \* wx.appID
    appSecret,      \* wx.appSecret
    routes,         \* wx.routes
    mp,             \* MemoryCacheStore.mp
    redisData,      \* what the Redis server holds: key -> stored string
    cacheGot,       \* what the last Get of a cache store returned
    lastSet,        \* per key, the value of the last MemoryCacheStore.Set
    log,            \* what crossed tokenChan and the flag, in the order it happened
    jsapi,          \* the GetJsAPITicket call in progress
    upload          \* the reader given to UploadMedia and the file parts posted

\* createJsAPITicket's own state
tvars == <<ticket, tpc, titer>>

\* the credentials New was given
appvars == <<appID, appSecret>>

\* the cache stores
storevars == <<mp, redisData, cacheGot, lastSet>>

\* what the credential goroutines, the callers and ServeHTTP leave alone
xvars == <<appvars, routes, storevars, log, jsapi, upload>>

vars == <<now, token, refreshToken, bpc, iter, proc, refreshedAt, tvars, srv, xvars>>

\* ------------------------------------------------------------------ values
\* type AccessToken struct { Token string; Expires time.Time }
AccessToken(tok, exp) == [Token |-> tok, Expires |-> exp]

\* AccessToken{}: empty string and the zero time, which precedes every clock value
ZeroToken == AccessToken("", 0)

NoResult == [kind |-> "none", code |-> 0, tok |-> ZeroToken]

\* What a call returns: its kind, the errcode of a platform error, the token of
\* GetAccessToken.
Result(k, c, t) == [kind |-> k, code |-> c, tok |-> t]

\* One HTTP reply, as far as the executors look at it.
Reply(k, c) == [kind |-> k, code |-> c]
NoReply == Reply("none", 0)

\* A caller goroutine: where it is in its call (pc), the loop counter i and the
\* local token of the call, and a record of the call so far: whether the token
\* was already expired when it was received (readStale), the channel receives
\* (reads) and HTTP calls (reqs) made, how each attempt ended (trace), the last
\* HTTP reply (reply), and for RefreshAccessToken the token endpoint calls
\* started (authsSince) and the values handed to other callers (servedAhead)
\* since the flag was stored.
IdleProc == [pc |-> "idle", op |-> "none", i |-> 0, tok |-> ZeroToken,
             readStale |-> FALSE, reads |-> 0, reqs |-> 0, trace |-> <<>>,
             reply |-> NoReply, authsSince |-> 0, servedAhead |-> 0,
             result |-> NoResult]

NoIter == [seed |-> FALSE, swapped |-> FALSE, expired |-> FALSE, auth |-> "none"]

\* type jsAPITicket struct { ticket string; expires time.Time }
jsAPITicket(tic, exp) == [ticket |-> tic, expires |-> exp]

\* One loop iteration of createJsAPITicket: whether it is the seed, whether the
\* ticket was expired at the test, and how getJsAPITicket ended.
NoTIter == [seed |-> FALSE, expired |-> FALSE, got |-> "none"]

\* What Get(k) of a cache store returned: the token and whether the error is
\* not nil; and what the store found ("hit", "missing", "storeerr",
\* "undecodable").
Got(store, k, v, err, found) ==
    [store |-> store, k |-> k, v |-> v, err |-> err, found |-> found]

\* A GetJsAPITicket call: where it is (pc), the loop counter i, the local
\* `ticket`, the channel receives made (reads), how each attempt ended (trace)
\* and what the call returned: the ticket string and whether the error is nil.
NoJsAPICall ==
    [pc |-> "idle", i |-> 0, ticket |-> jsAPITicket("", 0), reads |-> 0,
     trace |-> <<>>, result |-> [kind |-> "none", ticket |-> ""]]

\* An io.Reader over `data` of which the first `pos` bytes have been read.
Reader(data, pos) == [data |-> data, pos |-> pos]

\* UploadMedia's `reader` and the file part of each HTTP call uploadMedia made.
NoUpload == [reader |-> Reader(<<>>, 0), posted |-> <<>>]

\* A cache store's Get has not been called.
NoGet == Got("none", "", ZeroToken, FALSE, "none")

\* No ServeHTTP call in progress.
IdleSrv == [pc |-> "idle"]

\* One *http.Request as ServeHTTP reads it: the method, the form values and
\* the body.
Request(method, signature, timestamp, nonce, msg_signature, echostr, body) ==
    [method |-> method, signature |-> signature, timestamp |-> timestamp,
     nonce |-> nonce, msg_signature |-> msg_signature, echostr |-> echostr,
     body |-> body]

\* A request body: one that cannot be read, one that is not XML, or a
\* document of which xml.Unmarshal fills the fields of msg.
Body(kind, msgType, event, encrypt, from, to) ==
    [kind |-> kind, MsgType |-> msgType, Event |-> event, Encrypt |-> encrypt,
     FromUserName |-> from, ToUserName |-> to]

BodyNone == Body("none", <<>>, <<>>, <<>>, "", "")
BodyUnreadable == Body("unreadable", <<>>, <<>>, <<>>, "", "")
BodyBadXml == Body("badxml", <<>>, <<>>, <<>>, "", "")

\* An envelope with a MsgType and an Encrypt element, from the user "u" to the
\* account "gh".
BodyXml(msgType, encrypt) == Body("xml", msgType, <<>>, encrypt, "u", "gh")

\* A message or an event in the clear.
BodyEvent(msgType, event, from, to) == Body("xml", msgType, event, <<>>, from, to)

\* What the handler uses of the client: wx.token and wx.encodingAESKey.
Client(t, key) == [token |-> t, encodingAESKey |-> key]

\* type responseWriter struct: toUserName and fromUserName
responseWriter(to, from) == [toUserName |-> to, fromUserName |-> from]

\* fmt.Sprintf(replyHeader, a, b, c): the elements ToUserName, FromUserName and
\* CreateTime of the header take the three operands in this order.
SprintfReplyHeader(a, b, c) == [ToUserName |-> a, FromUserName |-> b, CreateTime |-> c]

\* A message written to the response: its MsgType and its header.
Msg(msgType, header) == [MsgType |-> msgType, header |-> header]

\* Nothing written.
NoMsg == Msg("none", SprintfReplyHeader("", "", 0))

\* A ServeHTTP call at its entry, for the client wx and the request req.
\*   status    the status written (0: none yet)
\*   out       the body written
\*   sigok     what checkSignature returned
\*   read      ioutil.ReadAll(r.Body) was called
\*   decoded   xml.Unmarshal of the body was called
\*   d         the base64-decoded ciphertext
\*   cipher    aes.NewCipher was called
\*   decrypted CryptBlocks was called
\*   inner     the bytes given to the second xml.Unmarshal
\*   handled   a route handler was invoked
\*   panicked  the call ended in a run-time panic
\*   invoked   the handlers routeRequest invoked, in order
\*   writer    the responseWriter routeRequest built
\*   reply     the message the handler wrote through the writer
NewSrv(wx, req) ==
    [pc |-> "entry", wx |-> wx, req |-> req, status |-> 0, out |-> <<>>,
     sigok |-> FALSE, read |-> FALSE, decoded |-> FALSE, d |-> <<>>,
     cipher |-> FALSE, decrypted |-> FALSE, inner |-> <<>>,
     handled |-> FALSE, panicked |-> FALSE, invoked |-> <<>>,
     writer |-> responseWriter("", ""), reply |-> NoMsg]

\* ------------------------------------------------------- Credential Source
\* What the token endpoint can answer: a failure (transport error, unreadable or
\* unparsable body, or an error envelope, which carries no access_token), or a
\* token string with its expires_in.
AuthReplies ==
    {[ok |-> FALSE, access_token |-> "", expires_in |-> 0]}
    \cup {[ok |-> TRUE, access_token |-> s, expires_in |-> d] :
            s \in TokenStrings, d \in 1..MaxTTL}

\* func authAccessToken(appid, secret) (string, time.Duration)
authAccessToken(reply) ==
    IF reply.ok THEN <<reply.access_token, reply.expires_in>> ELSE <<"", 0>>

\* Faulty variant: a token still counts as fresh at the instant of its expiry.
Fresh_ThroughExpiry(t, at) == at <= t.Expires

\* time.Since(token.Expires).Seconds() < 0
Fresh(t, at) == at < t.Expires

\* The data model's notion: a credential is stale when its expiry is not in the
\* future.  Used to record what happened, never to decide what the code does.
Expired(t, at) == at >= t.Expires

\* Faulty variant: the expiry test is > 0, so a token is kept through its expiry instant.
NeedRefresh_StrictlyAfter(swapped, t, at) == swapped \/ at > t.Expires

\* Faulty variant: the swapped flag is dropped from the test.
NeedRefresh_IgnoreSwap(swapped, t, at) == at >= t.Expires

\* Faulty variant: every iteration calls the token endpoint.
NeedRefresh_Always(swapped, t, at) == TRUE

\* if swapped || time.Since(token.Expires).Seconds() >= 0
NeedRefresh(swapped, t, at) == swapped \/ at >= t.Expires

\* Faulty variant: a failed call leaves the token as it was.
RefreshedToken_KeepOnFailure(old, reply, at) ==
    LET r == authAccessToken(reply)
    IN  IF reply.ok THEN [old EXCEPT !.Token = r[1], !.Expires = at + r[2]] ELSE old

\* Faulty variant: the expiry is the answered duration alone, not added to the clock.
RefreshedToken_NoClock(old, reply, at) ==
    LET r == authAccessToken(reply)
    IN  [old EXCEPT !.Token = r[1], !.Expires = r[2]]

\* token.Token, expires = authAccessToken(appid, secret)
\* token.Expires = time.Now().Add(expires)
RefreshedToken(old, reply, at) ==
    LET r == authAccessToken(reply)
    IN  [old EXCEPT !.Token = r[1], !.Expires = at + r[2]]

\* ------------------------------------------------------------- the clock
Tick ==
    /\ now < MaxTime
    /\ now' = now + 1
    /\ UNCHANGED <<token, refreshToken, bpc, iter, proc, refreshedAt, tvars, srv, xvars>>

\* ---------------------------------------------- createAccessToken goroutine
\* Faulty variant: the token endpoint is called before the seed is sent.
BStart_RefreshFirst ==
    /\ bpc = "start"
    /\ token' = AccessToken("", now)
    /\ iter' = [NoIter EXCEPT !.seed = TRUE]
    /\ bpc' = "auth"
    /\ UNCHANGED <<now, refreshToken, proc, refreshedAt, tvars, srv, xvars>>

\* token := AccessToken{"", time.Now()}
BStart ==
    /\ bpc = "start"
    /\ token' = AccessToken("", now)
    /\ iter' = [NoIter EXCEPT !.seed = TRUE]
    /\ bpc' = "seed"
    /\ UNCHANGED <<now, refreshToken, proc, refreshedAt, tvars, srv, xvars>>

\* swapped := atomic.CompareAndSwapInt32(&wx.refreshToken, 1, 0), then the test
\* that decides whether this iteration calls the token endpoint.  A call that is
\* decided here has started: RefreshAccessToken calls still waiting count it.
BCheckStep ==
    /\ bpc = "check"
    /\ LET swapped == (refreshToken = 1)
           need == NeedRefresh(swapped, token, now)
       IN  /\ refreshToken' = IF swapped THEN 0 ELSE refreshToken
           /\ iter' = [seed |-> FALSE, swapped |-> swapped,
                       expired |-> Expired(token, now), auth |-> "none"]
           /\ bpc' = IF need THEN "auth" ELSE "send"
           /\ proc' = [p \in DOMAIN proc |->
                         IF need /\ proc[p].op = "RefreshAccessToken"
                                 /\ proc[p].pc = "recv"
                                 /\ proc[p].authsSince < CountCap
                         THEN [proc[p] EXCEPT !.authsSince = @ + 1]
                         ELSE proc[p]]
    /\ UNCHANGED <<now, token, refreshedAt, tvars, srv>>

BCheck ==
    /\ BCheckStep
    /\ UNCHANGED xvars

\* Faulty variant: a failed call of the token endpoint is made again at once,
\* before anything is sent.
BAuthReply_RetryBeforeSend(reply) ==
    /\ bpc = "auth"
    /\ token' = RefreshedToken(token, reply, now)
    /\ iter' = [iter EXCEPT !.auth = IF reply.ok THEN "ok" ELSE "fail"]
    /\ bpc' = IF reply.ok THEN "send" ELSE "check"
    /\ UNCHANGED <<now, refreshToken, proc, tvars, srv>>

\* authAccessToken returns `reply` and the two assignments to token are made.
BAuthReply(reply) ==
    /\ bpc = "auth"
    /\ token' = RefreshedToken(token, reply, now)
    /\ iter' = [iter EXCEPT !.auth = IF reply.ok THEN "ok" ELSE "fail"]
    /\ bpc' = "send"
    /\ UNCHANGED <<now, refreshToken, proc, tvars, srv>>

BAuth ==
    /\ \E reply \in AuthReplies : BAuthReply(reply)
    /\ UNCHANGED <<refreshedAt, xvars>>

\* BAuth, with the time of the answer written down when it carries a token.
BAuthTimed ==
    \E reply \in AuthReplies :
        /\ BAuthReply(reply)
        /\ refreshedAt' = IF reply.ok THEN now ELSE 0
        /\ UNCHANGED xvars

\* ------------------------------------------------------ caller goroutines
\* func (wx *Weixin) RefreshAccessToken(): atomic.StoreInt32(&wx.refreshToken, 1)
StoreRefreshFlag(p) ==
    /\ refreshToken' = 1
    /\ proc' = [proc EXCEPT ![p] = [IdleProc EXCEPT !.pc = "recv",
                                                     !.op = "RefreshAccessToken"]]

CallRefreshAccessToken(p) ==
    /\ proc[p].pc = "idle"
    /\ StoreRefreshFlag(p)
    /\ UNCHANGED <<now, token, bpc, iter, refreshedAt, tvars, srv, xvars>>

\* GetAccessToken or an executor is called: for i := 0; i < retryMaxN; i++ {
CallReader(p, op) ==
    /\ proc[p].pc = "idle"
    /\ proc' = [proc EXCEPT ![p] = [IdleProc EXCEPT !.pc = "recv", !.op = op]]
    /\ UNCHANGED <<now, token, refreshToken, bpc, iter, refreshedAt, tvars, srv, xvars>>

\* Faulty variant: RefreshAccessToken returns only with a value that is not expired.
Received_WaitsForFresh(pr, t, at) ==
    IF pr.op = "RefreshAccessToken"
    THEN IF Expired(t, at)
         THEN [pr EXCEPT !.reads = 1]
         ELSE [pr EXCEPT !.pc = "done", !.reads = 1,
                         !.result = Result("returned", 0, ZeroToken)]
    ELSE [pr EXCEPT !.pc = "chk", !.tok = t, !.readStale = Expired(t, at),
                    !.reads = @ + 1]

\* The receiver's side of the rendezvous.  RefreshAccessToken discards the value
\* and returns; the others keep it in their local `token`.
Received(pr, t, at) ==
    IF pr.op = "RefreshAccessToken"
    THEN [pr EXCEPT !.pc = "done", !.reads = @ + 1,
                    !.result = Result("returned", 0, ZeroToken)]
    ELSE [pr EXCEPT !.pc = "chk", !.tok = t, !.readStale = Expired(t, at),
                    !.reads = @ + 1]

\* c <- token in createAccessToken meets token := <-c in a caller.
\* Faulty variant: one send is received by every goroutine waiting on the channel.
DeliverStep_Broadcast(p) ==
    /\ bpc \in {"seed", "send"}
    /\ proc[p].pc = "recv"
    /\ proc' = [q \in DOMAIN proc |->
                  IF proc[q].pc = "recv" THEN Received(proc[q], token, now)
                  ELSE proc[q]]
    /\ bpc' = "check"
    /\ UNCHANGED <<now, token, refreshToken, iter, refreshedAt, tvars, srv>>

DeliverStep(p) ==
    /\ bpc \in {"seed", "send"}
    /\ proc[p].pc = "recv"
    /\ proc' = [q \in DOMAIN proc |->
                  IF q = p THEN Received(proc[p], token, now)
                  ELSE IF /\ proc[q].op = "RefreshAccessToken"
                          /\ proc[q].pc = "recv"
                          /\ proc[q].servedAhead < CountCap
                       THEN [proc[q] EXCEPT !.servedAhead = @ + 1]
                       ELSE proc[q]]
    /\ bpc' = "check"
    /\ UNCHANGED <<now, token, refreshToken, iter, refreshedAt, tvars, srv>>

Deliver(p) ==
    /\ DeliverStep(p)
    /\ UNCHANGED xvars

\* Faulty variant: the loop test is i <= retryMaxN.
NextAttempt_OffByOne(pr, how, exhausted) ==
    LET q == [pr EXCEPT !.i = @ + 1, !.trace = Append(@, how)]
    IN  IF q.i <= retryMaxN
        THEN [q EXCEPT !.pc = "recv", !.tok = ZeroToken, !.readStale = FALSE]
        ELSE [q EXCEPT !.pc = "done", !.result = exhausted,
                       !.tok = ZeroToken, !.readStale = FALSE]

\* The end of a loop iteration that did not return: i++ and the loop test; when
\* the loop is left the function returns `exhausted`.
NextAttempt(pr, how, exhausted) ==
    LET q == [pr EXCEPT !.i = @ + 1, !.trace = Append(@, how)]
    IN  IF q.i < retryMaxN
        THEN [q EXCEPT !.pc = "recv", !.tok = ZeroToken, !.readStale = FALSE]
        ELSE [q EXCEPT !.pc = "done", !.result = exhausted,
                       !.tok = ZeroToken, !.readStale = FALSE]

\* A return from inside the loop.
ReturnFrom(pr, how, res) ==
    [pr EXCEPT !.pc = "done", !.trace = Append(@, how), !.result = res,
               !.tok = ZeroToken, !.readStale = FALSE]

\* GetAccessToken: if time.Since(token.Expires).Seconds() < 0 { return token }
GetAccessTokenCheck(p) ==
    /\ proc[p].pc = "chk"
    /\ proc[p].op = "GetAccessToken"
    /\ proc' = [proc EXCEPT ![p] =
                  IF Fresh(proc[p].tok, now)
                  THEN ReturnFrom(proc[p], "fresh", Result("token", 0, proc[p].tok))
                  ELSE NextAttempt(proc[p], "skip", Result("zero", 0, ZeroToken))]
    /\ UNCHANGED <<now, token, refreshToken, bpc, iter, refreshedAt, tvars, srv, xvars>>

\* ------------------------------------------------------------- executors
\* What one HTTP call of an executor can come to.
\*   neterr    http.Get / http.Post returns an error
\*   readerr   ioutil.ReadAll(r.Body) returns an error
\*   badjson   json.Unmarshal of the body fails
\*   envelope  the body decodes to {errcode, errmsg}
\*   media     (downloadMedia) Content-Type is not text/plain, io.Copy succeeds
\*   mediaerr  (downloadMedia) Content-Type is not text/plain, io.Copy fails
HttpReplies(op) ==
    {Reply(k, 0) : k \in {"neterr", "readerr", "badjson"}}
    \cup {Reply("envelope", c) : c \in ErrorCodes}
    \cup (IF op = "downloadMedia"
          THEN {Reply("media", 0), Reply("mediaerr", 0)} ELSE {})

\* Faulty variant: every non-zero errcode is retried like 42001.
OnErrorCode_RetryAny(code) ==
    IF code = 0 THEN "ok" ELSE "e42001"

\* switch result.ErrorCode { case 0: return; case 42001: continue; default: error }
OnErrorCode(code) ==
    CASE code = 0 -> "ok"
      [] code = ErrTokenExpired -> "e42001"
      [] OTHER -> "apierr"

\* Faulty variant: a body read error is retried like 42001.
AttemptOutcome_RetryReadErr(op, reply) ==
    CASE reply.kind = "neterr" -> "neterr"
      [] reply.kind = "media" -> "ok"
      [] reply.kind = "mediaerr" -> "copyerr"
      [] reply.kind = "readerr" -> "e42001"
      [] reply.kind = "badjson" -> "badjson"
      [] OTHER -> OnErrorCode(reply.code)

\* Faulty variant: downloadMedia decodes every body as an envelope; a media
\* payload is not JSON.
AttemptOutcome_ParseMedia(op, reply) ==
    CASE reply.kind = "neterr" -> "neterr"
      [] reply.kind \in {"media", "mediaerr"} -> "badjson"
      [] reply.kind = "readerr" -> "readerr"
      [] reply.kind = "badjson" -> "badjson"
      [] OTHER -> OnErrorCode(reply.code)

\* How one attempt that issued its HTTP call ends, in the order the code tests.
AttemptOutcome(op, reply) ==
    CASE reply.kind = "neterr" -> "neterr"
      [] reply.kind = "media" -> "ok"
      [] reply.kind = "mediaerr" -> "copyerr"
      [] reply.kind = "readerr" -> "readerr"
      [] reply.kind = "badjson" -> "badjson"
      [] OTHER -> OnErrorCode(reply.code)

\* errors.New("WeiXin post request too many times:" + reqURL) and its siblings
TooMany == Result("toomany", 0, ZeroToken)

\* Faulty variant: a failed HTTP call is retried like 42001.
AfterReply_RetryTransport(pr, reply) ==
    LET how == AttemptOutcome(pr.op, reply)
    IN  IF how \in {"e42001", "neterr"}
        THEN NextAttempt(pr, how, TooMany)
        ELSE ReturnFrom(pr, how,
                        Result(how, IF how = "apierr" THEN reply.code ELSE 0,
                               ZeroToken))

\* The executor's step after the reply: return, or go round the loop again.
AfterReply(pr, reply) ==
    LET how == AttemptOutcome(pr.op, reply)
    IN  IF how = "e42001"
        THEN NextAttempt(pr, how, TooMany)
        ELSE ReturnFrom(pr, how,
                        Result(how, IF how = "apierr" THEN reply.code ELSE 0,
                               ZeroToken))

\* What uploadMedia does between the freshness test and http.Post: it builds the
\* multipart body (CreateFormFile, io.Copy from the caller's reader).
BodyBuilds(op) ==
    IF op = "uploadMedia" THEN {"built", "formerr", "bodyerr"} ELSE {"built"}

\* Faulty variant: the token is used without the freshness test.
AfterCheck_NoFreshTest(pr, at, build) ==
    IF build # "built"
    THEN ReturnFrom(pr, build, Result(build, 0, ZeroToken))
    ELSE [pr EXCEPT !.pc = "http", !.reqs = @ + 1]

\* if time.Since(token.Expires).Seconds() < 0 { ... issue the HTTP call ... }
\* A stale token ends the attempt with no call.
AfterCheck(pr, at, build) ==
    IF ~Fresh(pr.tok, at)
    THEN NextAttempt(pr, "skip", TooMany)
    ELSE IF build # "built"
         THEN ReturnFrom(pr, build, Result(build, 0, ZeroToken))
         ELSE [pr EXCEPT !.pc = "http", !.reqs = @ + 1]

ExecCheck(p) ==
    /\ proc[p].pc = "chk"
    /\ proc[p].op \in Executors
    /\ \E build \in BodyBuilds(proc[p].op) :
          proc' = [proc EXCEPT ![p] = AfterCheck(proc[p], now, build)]
    /\ UNCHANGED <<now, token, refreshToken, bpc, iter, refreshedAt, tvars, srv, xvars>>

\* Faulty variant: an executor that is answered 42001 marks the shared token expired.
ExecReply_ExpiresShared(p) ==
    /\ proc[p].pc = "http"
    /\ \E reply \in HttpReplies(proc[p].op) :
          /\ proc' = [proc EXCEPT ![p] =
                        AfterReply([proc[p] EXCEPT !.reply = reply], reply)]
          /\ token' = IF reply = Reply("envelope", ErrTokenExpired)
                      THEN [token EXCEPT !.Expires = now] ELSE token
    /\ UNCHANGED <<now, refreshToken, bpc, iter, refreshedAt, tvars, srv, xvars>>

\* Faulty variant: an executor that is answered 42001 stores the flag.
ExecReply_SetsFlag(p) ==
    /\ proc[p].pc = "http"
    /\ \E reply \in HttpReplies(proc[p].op) :
          /\ proc' = [proc EXCEPT ![p] =
                        AfterReply([proc[p] EXCEPT !.reply = reply], reply)]
          /\ refreshToken' = IF reply = Reply("envelope", ErrTokenExpired)
                             THEN 1 ELSE refreshToken
    /\ UNCHANGED <<now, token, bpc, iter, refreshedAt, tvars, srv, xvars>>

ExecReply(p) ==
    /\ proc[p].pc = "http"
    /\ \E reply \in HttpReplies(proc[p].op) :
          proc' = [proc EXCEPT ![p] =
                     AfterReply([proc[p] EXCEPT !.reply = reply], reply)]
    /\ UNCHANGED <<now, token, refreshToken, bpc, iter, refreshedAt, tvars, srv, xvars>>

\* The call has returned to its caller; the goroutine is free for another call.
Return(p) ==
    /\ proc[p].pc = "done"
    /\ proc' = [proc EXCEPT ![p] = IdleProc]
    /\ UNCHANGED <<now, token, refreshToken, bpc, iter, refreshedAt, tvars, srv, xvars>>

\* ------------------------------------------------------------ uploadMedia
FileContents == {<<7>>, <<7, 8>>}     \* what the caller's reader holds

\* func (wx *Weixin) UploadMedia(mediaType, filename string, reader io.Reader)
CallUploadMedia(p) ==
    /\ proc[p].pc = "idle"
    /\ proc' = [proc EXCEPT ![p] = [IdleProc EXCEPT !.pc = "recv", !.op = "uploadMedia"]]
    /\ \E data \in FileContents : upload' = [NoUpload EXCEPT !.reader = Reader(data, 0)]
    /\ UNCHANGED <<now, token, refreshToken, bpc, iter, refreshedAt, tvars, srv,
                   appvars, routes, storevars, log, jsapi>>

\* Faulty variant: every copy starts at the first byte of the reader.
ioCopy_FromStart(r) ==
    [written |-> r.data, reader |-> Reader(r.data, Len(r.data))]

\* io.Copy(fileWriter, reader): reads until the reader is at its end; what is
\* written is what the reader had left.
ioCopy(r) ==
    [written |-> SubSeq(r.data, r.pos + 1, Len(r.data)),
     reader |-> Reader(r.data, Len(r.data))]

\* One attempt of uploadMedia after the receive: the freshness test, then
\* bodyBuf := &bytes.Buffer{}, CreateFormFile, io.Copy(fileWriter, reader) and
\* http.Post.  A copy that fails has read some of what was left.
UploadCheck(p) ==
    /\ proc[p].pc = "chk"
    /\ proc[p].op = "uploadMedia"
    /\ \E build \in BodyBuilds(proc[p].op) :
          /\ proc' = [proc EXCEPT ![p] = AfterCheck(proc[p], now, build)]
          /\ IF ~Fresh(proc[p].tok, now) \/ build = "formerr"
             THEN upload' = upload
             ELSE IF build = "bodyerr"
             THEN \E k \in upload.reader.pos..Len(upload.reader.data) :
                     upload' = [upload EXCEPT !.reader.pos = k]
             ELSE upload' = [upload EXCEPT
                               !.reader = ioCopy(upload.reader).reader,
                               !.posted = Append(@, ioCopy(upload.reader).written)]
    /\ UNCHANGED <<now, token, refreshToken, bpc, iter, refreshedAt, tvars, srv,
                   appvars, routes, storevars, log, jsapi>>

\* ------------------------------------------------- the steps, written down
\* One entry of the log: what happened (e), the goroutine it happened to (p),
\* the token it carried (tok), and for a call of the token endpoint whether
\* the flag was swapped (swapped).
\*   flag  RefreshAccessToken stored 1 in wx.refreshToken
\*   auth  createAccessToken's test decided to call authAccessToken
\*   pub   createAccessToken reached c <- token with this token
\*   recv  a goroutine received this token from tokenChan
\*   send  an executor put this token into the URL of its HTTP call
Ev(e, p, tok, swapped) == [e |-> e, p |-> p, tok |-> tok, swapped |-> swapped]

BStartLog ==
    /\ bpc = "start"
    /\ token' = AccessToken("", now)
    /\ iter' = [NoIter EXCEPT !.seed = TRUE]
    /\ bpc' = "seed"
    /\ log' = Append(log, Ev("pub", "", token', FALSE))
    /\ UNCHANGED <<now, refreshToken, proc, refreshedAt, tvars, srv,
                   appvars, routes, storevars, jsapi, upload>>

BCheckLog ==
    /\ BCheckStep
    /\ log' = Append(log, IF bpc' = "auth"
                          THEN Ev("auth", "", token, iter'.swapped)
                          ELSE Ev("pub", "", token, FALSE))
    /\ UNCHANGED <<appvars, routes, storevars, jsapi, upload>>

BAuthLog ==
    /\ \E reply \in AuthReplies : BAuthReply(reply)
    /\ log' = Append(log, Ev("pub", "", token', FALSE))
    /\ UNCHANGED <<refreshedAt, appvars, routes, storevars, jsapi, upload>>

CallRefreshAccessTokenLog(p) ==
    /\ proc[p].pc = "idle"
    /\ StoreRefreshFlag(p)
    /\ log' = Append(log, Ev("flag", p, ZeroToken, FALSE))
    /\ UNCHANGED <<now, token, bpc, iter, refreshedAt, tvars, srv,
                   appvars, routes, storevars, jsapi, upload>>

\* RefreshAccessToken discards what it receives: the log has the value that
\* was on the channel; for the others it has the caller's local `token`.
DeliverLog(p) ==
    /\ DeliverStep(p)
    /\ log' = Append(log, Ev("recv", p,
                             IF proc[p].op = "RefreshAccessToken"
                             THEN token ELSE proc'[p].tok, FALSE))
    /\ UNCHANGED <<appvars, routes, storevars, jsapi, upload>>

ExecCheckLog(p) ==
    /\ proc[p].pc = "chk"
    /\ proc[p].op \in Executors
    /\ \E build \in BodyBuilds(proc[p].op) :
          proc' = [proc EXCEPT ![p] = AfterCheck(proc[p], now, build)]
    /\ log' = IF proc'[p].pc = "http"
              THEN Append(log, Ev("send", p, proc[p].tok, FALSE)) ELSE log
    /\ UNCHANGED <<now, token, refreshToken, bpc, iter, refreshedAt, tvars, srv,
                   appvars, routes, storevars, jsapi, upload>>

\* -------------------------------------------- createJsAPITicket goroutine
TicketStrings == {"kA"}               \* ticket strings the platform issues

\* What json.Unmarshal(reply, &res) in getJsAPITicket can come to for a reply
\* that sendGetRequest returned: an error, or a ticket with its expires_in.
TicketBodies ==
    {[ok |-> FALSE, ticket |-> "", expires_in |-> 0]}
    \cup {[ok |-> TRUE, ticket |-> s, expires_in |-> d] :
            s \in TicketStrings, d \in 1..MaxTTL}

\* ticket := jsAPITicket{"", time.Now()}
TStart ==
    /\ tpc = "start"
    /\ ticket' = jsAPITicket("", now)
    /\ titer' = [NoTIter EXCEPT !.seed = TRUE]
    /\ tpc' = "seed"
    /\ UNCHANGED <<now, token, refreshToken, bpc, iter, proc, refreshedAt, srv, xvars>>

\* c <- ticket meets ticket := <-wx.ticketChan of a GetJsAPITicket call.
TDeliver ==
    /\ tpc \in {"seed", "send"}
    /\ tpc' = "check"
    /\ UNCHANGED <<now, token, refreshToken, bpc, iter, proc, refreshedAt,
                   ticket, titer, srv, xvars>>

\* if time.Since(ticket.expires).Seconds() >= 0 { t, err := getJsAPITicket(cin)
\* getJsAPITicket starts with sendGetRequest on the token channel.
TCheck ==
    /\ tpc = "check"
    /\ LET expired == now >= ticket.expires
       IN  /\ titer' = [NoTIter EXCEPT !.expired = expired]
           /\ tpc' = IF expired THEN "get" ELSE "send"
           /\ proc' = IF expired
                      THEN [proc EXCEPT ![TicketProc] =
                              [IdleProc EXCEPT !.pc = "recv", !.op = "sendGetRequest"]]
                      ELSE proc
    /\ UNCHANGED <<now, token, refreshToken, bpc, iter, refreshedAt, ticket, srv, xvars>>

\* Faulty variant: a failed getJsAPITicket leaves the zero ticket behind.
TicketAfter_ClearOnError(old, res, body, at) ==
    IF res.kind = "ok" /\ body.ok
    THEN jsAPITicket(body.ticket, at + body.expires_in)
    ELSE jsAPITicket("", 0)

\* getJsAPITicket returns (from sendGetRequest's result `res` and the decoded
\* `body`); if err == nil { ticket = *t }
TicketAfter(old, res, body, at) ==
    IF res.kind = "ok" /\ body.ok
    THEN jsAPITicket(body.ticket, at + body.expires_in)
    ELSE old

TGot ==
    /\ tpc = "get"
    /\ proc[TicketProc].pc = "done"
    /\ LET pr == proc[TicketProc] IN
       \E body \in TicketBodies :
          /\ ticket' = TicketAfter(ticket, pr.result, body, now)
          /\ titer' = [titer EXCEPT
                         !.got = IF pr.result.kind = "ok" /\ body.ok
                                 THEN "ok" ELSE "fail"]
    /\ proc' = [proc EXCEPT ![TicketProc] = IdleProc]
    /\ tpc' = "send"
    /\ UNCHANGED <<now, token, refreshToken, bpc, iter, refreshedAt, srv, xvars>>

\* ------------------------------------------------- GetJsAPITicket caller
\* func (wx *Weixin) GetJsAPITicket(): for i := 0; i < retryMaxN; i++ {
CallGetJsAPITicket ==
    /\ jsapi.pc = "idle"
    /\ jsapi' = [NoJsAPICall EXCEPT !.pc = "recv"]
    /\ UNCHANGED <<now, token, refreshToken, bpc, iter, proc, refreshedAt, tvars, srv,
                   appvars, routes, storevars, log, upload>>

\* c <- ticket in createJsAPITicket meets ticket := <-wx.ticketChan.
TReceive ==
    /\ tpc \in {"seed", "send"}
    /\ jsapi.pc = "recv"
    /\ jsapi' = [jsapi EXCEPT !.pc = "chk", !.ticket = ticket, !.reads = @ + 1]
    /\ tpc' = "check"
    /\ UNCHANGED <<now, token, refreshToken, bpc, iter, proc, refreshedAt,
                   ticket, titer, srv, appvars, routes, storevars, log, upload>>

\* Faulty variant: after the last stale read the ticket is returned all the same.
TicketAttempt_ReturnsLast(j, at) ==
    IF at < j.ticket.expires
    THEN [j EXCEPT !.pc = "done", !.trace = Append(@, "fresh"),
                   !.result = [kind |-> "ticket", ticket |-> j.ticket.ticket]]
    ELSE IF j.i + 1 < retryMaxN
         THEN [j EXCEPT !.pc = "recv", !.i = @ + 1, !.trace = Append(@, "skip")]
         ELSE [j EXCEPT !.pc = "done", !.i = @ + 1, !.trace = Append(@, "skip"),
                        !.result = [kind |-> "ticket", ticket |-> j.ticket.ticket]]

\* if time.Since(ticket.expires).Seconds() < 0 { return ticket.ticket, nil }
\* then i++ and the loop test; after the loop
\* return "", errors.New("Get JsApi Ticket Timeout")
TicketAttempt(j, at) ==
    IF at < j.ticket.expires
    THEN [j EXCEPT !.pc = "done", !.trace = Append(@, "fresh"),
                   !.result = [kind |-> "ticket", ticket |-> j.ticket.ticket]]
    ELSE IF j.i + 1 < retryMaxN
         THEN [j EXCEPT !.pc = "recv", !.i = @ + 1, !.trace = Append(@, "skip")]
         ELSE [j EXCEPT !.pc = "done", !.i = @ + 1, !.trace = Append(@, "skip"),
                        !.result = [kind |-> "timeout", ticket |-> ""]]

GetJsAPITicketCheck ==
    /\ jsapi.pc = "chk"
    /\ jsapi' = TicketAttempt(jsapi, now)
    /\ UNCHANGED <<now, token, refreshToken, bpc, iter, proc, refreshedAt, tvars, srv,
                   appvars, routes, storevars, log, upload>>

\* GetJsAPITicket has returned to its caller.
GetJsAPITicketReturn ==
    /\ jsapi.pc = "done"
    /\ jsapi' = NoJsAPICall
    /\ UNCHANGED <<now, token, refreshToken, bpc, iter, proc, refreshedAt, tvars, srv,
                   appvars, routes, storevars, log, upload>>

\* ------------------------------------------------------------- strings
\* A Go string, and a []byte, is a sequence of byte values (0..255).
StringsUpTo(alphabet, n) == UNION {[1..k -> alphabet] : k \in 0..n}

\* a < b for Go strings: byte by byte, a proper prefix first
RECURSIVE StrLess(_, _)
StrLess(a, b) ==
    IF b = <<>> THEN FALSE
    ELSE IF a = <<>> THEN TRUE
    ELSE IF Head(a) # Head(b) THEN Head(a) < Head(b)
    ELSE StrLess(Tail(a), Tail(b))

\* One element put into its place in a sorted slice.
RECURSIVE InsertSorted(_, _)
InsertSorted(x, strs) ==
    IF strs = <<>> THEN <<x>>
    ELSE IF StrLess(x, Head(strs)) THEN <<x>> \o strs
    ELSE <<Head(strs)>> \o InsertSorted(x, Tail(strs))

\* Faulty variant: the slice is left in the order it was built.
SortStrings_Unsorted(strs) == strs

\* sort.Strings(strs)
RECURSIVE SortStrings(_)
SortStrings(strs) ==
    IF strs = <<>> THEN <<>>
    ELSE InsertSorted(Head(strs), SortStrings(Tail(strs)))

\* for _, s := range strs { str += s }, and strings.Join(strs, "")
RECURSIVE JoinStrings(_)
JoinStrings(strs) ==
    IF strs = <<>> THEN <<>> ELSE Head(strs) \o JoinStrings(Tail(strs))

\* fmt.Sprintf("%x", sha1 of str).  SHA-1 is taken as free of collisions: the
\* digest of a string is a value that stands for that string and no other.
Sha1Hex(str) == [sha1hex |-> str]

\* func checkSignature(t string, w http.ResponseWriter, r *http.Request) bool,
\* of the token t and the form values of r
checkSignature(t, signature, timestamp, nonce) ==
    Sha1Hex(JoinStrings(SortStrings(<<t, timestamp, nonce>>))) = signature

\* --------------------------------------------------------------- bytes
\* a[lo:hi] of Go, on a sequence indexed from 1: the elements lo+1 .. hi
Slice(a, lo, hi) == [i \in 1..(hi - lo) |-> a[lo + i]]

\* x ^ y on n-bit values
RECURSIVE XorBits(_, _, _)
XorBits(x, y, n) ==
    IF n = 0 THEN 0
    ELSE ((x + y) % 2) + 2 * XorBits(x \div 2, y \div 2, n - 1)

XorBytes(a, b) == [i \in 1..Len(a) |-> XorBits(a[i], b[i], 8)]

\* The value of a character of the standard base64 alphabet, -1 for any other.
B64Value(c) ==
    CASE c \in 65..90 -> c - 65
      [] c \in 97..122 -> c - 71
      [] c \in 48..57 -> c + 4
      [] c = 43 -> 62
      [] c = 47 -> 63
      [] OTHER -> -1

B64Char(v) ==
    CASE v \in 0..25 -> v + 65
      [] v \in 26..51 -> v + 71
      [] v \in 52..61 -> v - 4
      [] v = 62 -> 43
      [] OTHER -> 47

\* base64.StdEncoding.DecodeString: quantums of 4 characters, '=' (61) padding
\* only in the last one.
RECURSIVE Base64Decode(_)
Base64Decode(str) ==
    IF str = <<>> THEN [ok |-> TRUE, bytes |-> <<>>]
    ELSE IF Len(str) < 4 THEN [ok |-> FALSE, bytes |-> <<>>]
    ELSE LET v1 == B64Value(str[1])
             v2 == B64Value(str[2])
             v3 == B64Value(str[3])
             v4 == B64Value(str[4])
             b1 == v1 * 4 + v2 \div 16
             b2 == (v2 % 16) * 16 + v3 \div 4
             b3 == (v3 % 4) * 64 + v4
             last == Len(str) = 4
             rest == Base64Decode(Slice(str, 4, Len(str)))
         IN  IF v1 < 0 \/ v2 < 0 THEN [ok |-> FALSE, bytes |-> <<>>]
             ELSE IF last /\ str[3] = 61 /\ str[4] = 61
                  THEN [ok |-> TRUE, bytes |-> <<b1>>]
             ELSE IF v3 < 0 THEN [ok |-> FALSE, bytes |-> <<>>]
             ELSE IF last /\ str[4] = 61
                  THEN [ok |-> TRUE, bytes |-> <<b1, b2>>]
             ELSE IF v4 < 0 \/ ~rest.ok THEN [ok |-> FALSE, bytes |-> <<>>]
             ELSE [ok |-> TRUE, bytes |-> <<b1, b2, b3>> \o rest.bytes]

\* What the platform does to the ciphertext before it puts it in <Encrypt>.
RECURSIVE Base64Encode(_)
Base64Encode(b) ==
    IF b = <<>> THEN <<>>
    ELSE IF Len(b) = 1
         THEN <<B64Char(b[1] \div 4), B64Char((b[1] % 4) * 16), 61, 61>>
    ELSE IF Len(b) = 2
         THEN <<B64Char(b[1] \div 4), B64Char((b[1] % 4) * 16 + b[2] \div 16),
                B64Char((b[2] % 16) * 4), 61>>
    ELSE <<B64Char(b[1] \div 4), B64Char((b[1] % 4) * 16 + b[2] \div 16),
           B64Char((b[2] % 16) * 4 + b[3] \div 64), B64Char(b[3] % 64)>>
         \o Base64Encode(Slice(b, 3, Len(b)))

\* aes.NewCipher(key) returns an error unless the key has 16, 24 or 32 bytes.
AesKeySizes == {16, 24, 32}

\* b.BlockSize()
BlockSize == 16

\* The block cipher.  AES itself is not modelled: a keyed bijection on blocks
\* of BlockSize bytes stands for it (the bytes are rotated by one place and the
\* key is added byte by byte).
EncryptBlock(key, blk) ==
    [i \in 1..BlockSize |-> (blk[(i % BlockSize) + 1] + key[i]) % 256]

DecryptBlock(key, blk) ==
    [j \in 1..BlockSize |->
        LET i == ((j + BlockSize - 2) % BlockSize) + 1
        IN  (blk[i] - key[i] + 256) % 256]

\* cipher.NewCBCDecrypter(b, iv).CryptBlocks(data, d), for len(d) a multiple of
\* the block size
RECURSIVE CBCDecrypt(_, _, _)
CBCDecrypt(key, iv, d) ==
    IF d = <<>> THEN <<>>
    ELSE LET c == Slice(d, 0, BlockSize)
         IN  XorBytes(DecryptBlock(key, c), iv)
             \o CBCDecrypt(key, c, Slice(d, BlockSize, Len(d)))

\* What the platform does to a padded plaintext: CBC encryption.
RECURSIVE CBCEncrypt(_, _, _)
CBCEncrypt(key, iv, plain) ==
    IF plain = <<>> THEN <<>>
    ELSE LET c == EncryptBlock(key, XorBytes(Slice(plain, 0, BlockSize), iv))
         IN  c \o CBCEncrypt(key, c, Slice(plain, BlockSize, Len(plain)))

\* func fixPKCS7UnPadding(data []byte) []byte: the length of the slice it
\* returns, -1 when data[:(length - unpadding)] is out of range (a panic).
fixPKCS7UnPadding(data) ==
    LET length == Len(data)
        unpadding == data[length]
    IN  IF unpadding > length THEN -1 ELSE length - unpadding

\* The upper bound 20+len of data[20:(20+len)], len being the uint32
\* binary.BigEndian.Uint32(data[16:20]): computed modulo 2^32, in two 16-bit
\* halves; -1 when it is not a number below 2^16.
PayloadEnd(data) ==
    LET hi == data[17] * 256 + data[18]
        lo == data[19] * 256 + data[20] + 20
        hi2 == (hi + lo \div 65536) % 65536
    IN  IF hi2 = 0 THEN lo % 65536 ELSE -1

\* xml.Unmarshal of a byte string: whether it finds an element to decode.  A
\* well-formed document stands as '<' ... '>'; what follows the element is
\* not read.
XmlParses(b) ==
    /\ Len(b) >= 3
    /\ b[1] = 60
    /\ \E i \in 3..Len(b) : b[i] = 62

\* fmt.Fprintf(w, format) with no operands: what is written for `format`.
\* "%%" writes "%"; "%" and a verb writes "%!verb(MISSING)"; a "%" that ends
\* the format writes "%!(NOVERB)"; any other byte is copied.
RECURSIVE Fprintf(_)
Fprintf(format) ==
    IF format = <<>> THEN <<>>
    ELSE IF Head(format) # 37 THEN <<Head(format)>> \o Fprintf(Tail(format))
    ELSE IF Len(format) = 1 THEN <<37, 33, 40, 78, 79, 86, 69, 82, 66, 41>>
    ELSE IF format[2] = 37 THEN <<37>> \o Fprintf(Slice(format, 2, Len(format)))
    ELSE <<37, 33, format[2], 40, 77, 73, 83, 83, 73, 78, 71, 41>>
         \o Fprintf(Slice(format, 2, Len(format)))

\* ------------------------------------------------------------ ServeHTTP
\* What the steps of ServeHTTP leave alone.
cvars == <<now, token, refreshToken, bpc, iter, proc, refreshedAt, tvars, xvars>>

\* http.Error(w, "", code): the status and the body "\n"; the call is over.
HttpError(sv, code) ==
    [sv EXCEPT !.pc = "done", !.status = code, !.out = <<10>>]

\* A run-time panic in the handler: net/http recovers it and closes the
\* connection; nothing is written.
Panic(sv) == [sv EXCEPT !.pc = "done", !.panicked = TRUE]

\* Faulty variant: the signature is checked for POST only.
AfterSignature_PostOnly(sv) ==
    LET ok == checkSignature(sv.wx.token, sv.req.signature,
                             sv.req.timestamp, sv.req.nonce)
    IN  IF ok \/ sv.req.method = "GET"
        THEN [sv EXCEPT !.pc = "method", !.sigok = ok]
        ELSE HttpError(sv, 401)

\* if !checkSignature(wx.token, w, r) { http.Error(w, "", 401); return }
AfterSignature(sv) ==
    LET ok == checkSignature(sv.wx.token, sv.req.signature,
                             sv.req.timestamp, sv.req.nonce)
    IN  IF ok THEN [sv EXCEPT !.pc = "method", !.sigok = TRUE]
        ELSE HttpError(sv, 401)

\* if r.Method == "GET" { fmt.Fprintf(w, r.FormValue("echostr")); return }
ServeGet ==
    /\ srv.pc = "method"
    /\ srv.req.method = "GET"
    /\ srv' = [srv EXCEPT !.pc = "done", !.status = 200,
                          !.out = Fprintf(srv.req.echostr)]
    /\ UNCHANGED cvars

\* data, err := ioutil.ReadAll(r.Body), then xml.Unmarshal(data, &msg)
ServeRead ==
    /\ srv.pc = "method"
    /\ srv.req.method # "GET"
    /\ srv' = IF srv.req.body.kind = "unreadable"
              THEN HttpError([srv EXCEPT !.read = TRUE], 400)
              ELSE IF srv.req.body.kind # "xml"
              THEN HttpError([srv EXCEPT !.read = TRUE, !.decoded = TRUE], 400)
              ELSE [srv EXCEPT !.pc = "envelope", !.read = TRUE, !.decoded = TRUE]
    /\ UNCHANGED cvars

\* fmt.Sprintf("%x", sha1.Sum(...)) of the sorted join of the token, the
\* timestamp, the nonce and msg.Encrypt
MsgSignature(t, timestamp, nonce, encrypt) ==
    Sha1Hex(JoinStrings(SortStrings(<<t, timestamp, nonce, encrypt>>)))

\* Faulty variant: the envelope goes to the cipher without the msg_signature test.
AfterEnvelope_NoMsgSignature(sv) ==
    LET msg == sv.req.body
        dec == Base64Decode(msg.Encrypt)
    IN  IF ~(Len(sv.wx.encodingAESKey) > 0 /\ Len(msg.Encrypt) > 0)
        THEN [sv EXCEPT !.pc = "route"]
        ELSE IF ~dec.ok THEN HttpError(sv, 400)
        ELSE IF Len(dec.bytes) <= 20 THEN HttpError(sv, 400)
        ELSE [sv EXCEPT !.pc = "cipher", !.d = dec.bytes]

\* Faulty variant: a client with a key takes every envelope for an encrypted one.
AfterEnvelope_KeyOnly(sv) ==
    LET msg == sv.req.body
        dec == Base64Decode(msg.Encrypt)
    IN  IF ~(Len(sv.wx.encodingAESKey) > 0)
        THEN [sv EXCEPT !.pc = "route"]
        ELSE IF ~dec.ok THEN HttpError(sv, 400)
        ELSE IF Len(dec.bytes) <= 20 THEN HttpError(sv, 400)
        ELSE IF MsgSignature(sv.wx.token, sv.req.timestamp, sv.req.nonce,
                             msg.Encrypt) # sv.req.msg_signature
             THEN HttpError(sv, 400)
        ELSE [sv EXCEPT !.pc = "cipher", !.d = dec.bytes]

\* if len(wx.encodingAESKey) > 0 && len(msg.Encrypt) > 0 { ... the base64
\* decoding, the length test and the msg_signature test ... }
AfterEnvelope(sv) ==
    LET msg == sv.req.body
        dec == Base64Decode(msg.Encrypt)
    IN  IF ~(Len(sv.wx.encodingAESKey) > 0 /\ Len(msg.Encrypt) > 0)
        THEN [sv EXCEPT !.pc = "route"]
        ELSE IF ~dec.ok THEN HttpError(sv, 400)
        ELSE IF Len(dec.bytes) <= 20 THEN HttpError(sv, 400)
        ELSE IF MsgSignature(sv.wx.token, sv.req.timestamp, sv.req.nonce,
                             msg.Encrypt) # sv.req.msg_signature
             THEN HttpError(sv, 400)
        ELSE [sv EXCEPT !.pc = "cipher", !.d = dec.bytes]

ServeEnvelope ==
    /\ srv.pc = "envelope"
    /\ srv' = AfterEnvelope(srv)
    /\ UNCHANGED cvars

\* Faulty variant: the payload is taken from the byte after the prefix.
InnerPayload_FromPrefix(data, end) == Slice(data, 16, end - 4)

\* data[20:(20+len)]
InnerPayload(data, end) == Slice(data, 20, end)

\* aes.NewCipher, CryptBlocks, fixPKCS7UnPadding, the length field, the second
\* xml.Unmarshal.  `data` is the array that make([]byte, len(d)) allocated: its
\* length is the capacity of every slice of it.
AfterCipher(sv) ==
    LET key == sv.wx.encodingAESKey
        d == sv.d
        c1 == [sv EXCEPT !.cipher = TRUE]
        c2 == [c1 EXCEPT !.decrypted = TRUE]
    IN  IF Len(key) \notin AesKeySizes THEN HttpError(c1, 400)
        ELSE IF Len(d) % BlockSize # 0 THEN Panic(c2)
        ELSE LET data == CBCDecrypt(key, Slice(key, 0, BlockSize), d)
                 end == PayloadEnd(data)
             IN  IF fixPKCS7UnPadding(data) < 0 THEN Panic(c2)
                 ELSE IF end < 20 \/ end > Len(data) THEN Panic(c2)
                 ELSE LET inner == InnerPayload(data, end)
                      IN  IF ~XmlParses(inner)
                          THEN HttpError([c2 EXCEPT !.inner = inner], 400)
                          ELSE [c2 EXCEPT !.pc = "route", !.inner = inner]

ServeDecrypt ==
    /\ srv.pc = "cipher"
    /\ srv' = AfterCipher(srv)
    /\ UNCHANGED cvars

\* --------------------------------------------------------------- routes
\* Event and message type constants, as byte strings.
msgEvent == <<101, 118, 101, 110, 116>>                          \* "event"
EventSubscribe == <<115, 117, 98, 115, 99, 114, 105, 98, 101>>   \* "subscribe"
EventClick == <<67, 76, 73, 67, 75>>                             \* "CLICK"
MsgTypeDefault == <<46, 42>>                                     \* ".*"
MsgTypeText == <<116, 101, 120, 116>>                            \* "text"
MsgTypeImage == <<105, 109, 97, 103, 101>>                       \* "image"
MsgTypeVideo == <<118, 105, 100, 101, 111>>                      \* "video"
MsgTypeShortVideo == <<115, 104, 111, 114, 116>> \o MsgTypeVideo \* "shortvideo"
MsgTypeEvent == msgEvent \o <<46, 42>>                           \* "event.*"
MsgTypeEventSubscribe == msgEvent \o <<92, 46>> \o EventSubscribe \* "event\.subscribe"

\* '.' of a regular expression: any byte
AnyByte == -1

\* regexp.Compile(pattern), for the patterns made of literal bytes, '.', '\'
\* before a byte, and '*' after one of these: the sequence of its atoms.
RECURSIVE Compile(_)
Compile(pattern) ==
    IF pattern = <<>> THEN <<>>
    ELSE LET esc == Head(pattern) = 92 /\ Len(pattern) >= 2
             n == IF esc THEN 2 ELSE 1
             ch == IF esc THEN pattern[2]
                   ELSE IF Head(pattern) = 46 THEN AnyByte ELSE Head(pattern)
             star == Len(pattern) > n /\ pattern[n + 1] = 42
         IN  <<[ch |-> ch, star |-> star]>>
             \o Compile(Slice(pattern, IF star THEN n + 1 ELSE n, Len(pattern)))

\* Whether the expression matches at the start of s: a prefix of s, or with
\* `whole` all of s.
RECURSIVE MatchHere(_, _, _)
MatchHere(re, s, whole) ==
    IF re = <<>> THEN (~whole \/ s = <<>>)
    ELSE LET a == Head(re)
             hit == s # <<>> /\ (a.ch = AnyByte \/ a.ch = Head(s))
         IN  IF a.star
             THEN MatchHere(Tail(re), s, whole)
                  \/ (hit /\ MatchHere(re, Tail(s), whole))
             ELSE hit /\ MatchHere(Tail(re), Tail(s), whole)

\* (*regexp.Regexp).MatchString(s): whether s contains any match of the
\* expression.
MatchString(re, s) ==
    \E k \in 0..Len(s) : MatchHere(re, Slice(s, k, Len(s)), FALSE)

\* route := &route{regex, handler}.  The handler is named by the number of the
\* HandleFunc call that registered it.
route(regex, handler) == [regex |-> regex, handler |-> handler]

\* Patterns that are registered.
Patterns ==
    {MsgTypeDefault, MsgTypeText, MsgTypeVideo, MsgTypeEvent, MsgTypeEventSubscribe}

\* func (wx *Weixin) HandleFunc(pattern string, handler HandlerFunc), called
\* while no request is being served
HandleFunc ==
    /\ srv.pc = "idle"
    /\ Len(routes) < MaxRoutes
    /\ \E pattern \in Patterns :
          routes' = Append(routes, route(Compile(pattern), Len(routes) + 1))
    /\ UNCHANGED <<now, token, refreshToken, bpc, iter, proc, refreshedAt, tvars,
                   srv, appvars, storevars, log, jsapi, upload>>

\* requestPath := r.MsgType; if requestPath == msgEvent { requestPath += "." + r.Event }
requestPath(r) ==
    IF r.MsgType = msgEvent THEN r.MsgType \o <<46>> \o r.Event ELSE r.MsgType

\* Faulty variant: the loop goes on after a handler was invoked.
RECURSIVE routeRequest_AllMatches(_, _)
routeRequest_AllMatches(rts, path) ==
    IF rts = <<>> THEN <<>>
    ELSE IF ~MatchString(Head(rts).regex, path)
         THEN routeRequest_AllMatches(Tail(rts), path)
    ELSE <<Head(rts).handler>> \o routeRequest_AllMatches(Tail(rts), path)

\* Faulty variant: the routes are walked from the last one registered.
RECURSIVE routeRequest_LastFirst(_, _)
routeRequest_LastFirst(rts, path) ==
    IF rts = <<>> THEN <<>>
    ELSE IF ~MatchString(rts[Len(rts)].regex, path)
         THEN routeRequest_LastFirst(SubSeq(rts, 1, Len(rts) - 1), path)
    ELSE <<rts[Len(rts)].handler>>

\* Faulty variant: a request that no route matches goes to the first route.
routeRequest_Fallback(rts, path) ==
    LET hit == {i \in 1..Len(rts) : MatchString(rts[i].regex, path)}
    IN  IF hit # {} THEN <<rts[CHOOSE i \in hit : \A j \in hit : i <= j].handler>>
        ELSE IF rts # <<>> THEN <<rts[1].handler>>
        ELSE <<>>

\* The loop of routeRequest over wx.routes: the handlers it invokes, in order.
\*   for _, route := range wx.routes {
\*       if !route.regex.MatchString(requestPath) { continue }
\*       ... route.handler(writer, r); return }
RECURSIVE routeRequest(_, _)
routeRequest(rts, path) ==
    IF rts = <<>> THEN <<>>
    ELSE IF ~MatchString(Head(rts).regex, path)
         THEN routeRequest(Tail(rts), path)
    ELSE <<Head(rts).handler>>

\* wx.routeRequest(w, &msg): the writer is built and the handler of the first
\* route that matches is invoked, or no route matches and the answer is 404.
\* msg is what the envelope set: the documents of Payloads have no child
\* element, so the second xml.Unmarshal leaves every field as it was.
ServeRoute ==
    /\ srv.pc = "route"
    /\ LET r == srv.req.body
           inv == routeRequest(routes, requestPath(r))
       IN  srv' = IF inv = <<>> THEN HttpError(srv, 404)
                  ELSE [srv EXCEPT !.pc = "handler", !.handled = TRUE,
                                   !.invoked = inv,
                                   !.writer = responseWriter(r.FromUserName,
                                                             r.ToUserName)]
    /\ UNCHANGED cvars

\* func (w responseWriter) replyHeader() string
replyHeader(w, at) == SprintfReplyHeader(w.toUserName, w.fromUserName, at)

\* ReplyText, ReplyImage, ReplyVoice, ReplyVideo, ReplyMusic and ReplyNews:
\* fmt.Sprintf(replyText, w.replyHeader(), ...) and its siblings
ReplyKinds == {"text", "image", "voice", "video", "music", "news"}
Reply_(w, kind, at) == Msg(kind, replyHeader(w, at))

\* func (w responseWriter) TransferCustomerService(serviceID string):
\* fmt.Sprintf(transferCustomerService, serviceID, w.fromUserName, time.Now().Unix())
ServiceIDs == {"kf"}
TransferCustomerService(w, serviceID, at) ==
    Msg("transfer_customer_service", SprintfReplyHeader(serviceID, w.fromUserName, at))

\* What a handler can write through the writer.
HandlerReplies(w, at) ==
    {NoMsg}
    \cup {Reply_(w, kind, at) : kind \in ReplyKinds}
    \cup {TransferCustomerService(w, id, at) : id \in ServiceIDs}

\* route.handler(writer, r): the handler writes a reply, or nothing, and
\* returns; the status of the response is 200.
ServeHandler ==
    /\ srv.pc = "handler"
    /\ \E msg \in HandlerReplies(srv.writer, now) :
          srv' = [srv EXCEPT !.pc = "done", !.status = 200, !.reply = msg]
    /\ UNCHANGED cvars

\* ------------------------------------------------------------- requests
\* Form values: strings of the digits '1' and '2'.
FormStrings == StringsUpTo({49, 50}, MaxStr)

\* The signature the platform computes for a token, a timestamp and a nonce.
SignatureOf(t, timestamp, nonce) ==
    Sha1Hex(JoinStrings(SortStrings(<<t, timestamp, nonce>>)))

\* wx.token of the clients considered: "22", "1", "12" and "21".
Tokens == {<<50, 50>>, <<49>>, <<49, 50>>, <<50, 49>>}

\* wx.encodingAESKey: none set, the 32 bytes of a 43-character key, and the 5
\* bytes of a key string that is too short.
AESKey == [i \in 1..32 |-> (i * 7 + 3) % 256]
Keys == {<<>>, AESKey, <<1, 2, 3, 4, 5>>}

\* echostr values: strings of 'a', 'd' and '%'.
EchoStrings == StringsUpTo({97, 100, 37}, MaxStr)

\* len as 4 bytes, big-endian (for lengths below 2^16)
Uint32BE(n) == <<0, 0, n \div 256, n % 256>>

\* PKCS#7 padding to a multiple of k bytes
Pkcs7Pad(b, k) ==
    LET n == k - (Len(b) % k)
    IN  b \o [i \in 1..n |-> n]

\* The plaintext the platform builds: 16 random bytes, the length of the
\* message, the message, the app id, padded to a multiple of 32 bytes.
PlainOf(prefix, payload, trail) ==
    Pkcs7Pad(prefix \o Uint32BE(Len(payload)) \o payload \o trail, 32)

Prefixes == {[i \in 1..16 |-> 64 + i], [i \in 1..16 |-> 255]}
Payloads == {<<60, 120, 62>>, <<60, 121, 47, 62>>, <<120, 121>>}
Trails == {<<>>, <<119, 120>>}

WellFormedPlains ==
    {PlainOf(pre, pl, tr) : pre \in Prefixes, pl \in Payloads, tr \in Trails}

\* Plaintexts no platform builds: a last byte larger than the length, a last
\* byte of 0, a length field beyond the data, a length field of 2^32 - 1, and
\* a length field that reaches into the padding.
CraftedPlains ==
    LET p == PlainOf(CHOOSE pre \in Prefixes : pre[1] = 65, <<60, 120, 62>>, <<>>)
    IN  {[p EXCEPT ![32] = 255],
         [p EXCEPT ![32] = 0],
         [p EXCEPT ![19] = 3, ![20] = 232],
         [p EXCEPT ![17] = 255, ![18] = 255, ![19] = 255, ![20] = 255],
         [p EXCEPT ![20] = 6]}

\* Ciphertexts: the encryption of each plaintext, one of 24 bytes (not a
\* multiple of the block size) and one of 16 bytes (not more than 20).
Ciphertexts ==
    {CBCEncrypt(AESKey, Slice(AESKey, 0, BlockSize), p) :
        p \in WellFormedPlains \cup CraftedPlains}
    \cup {[i \in 1..24 |-> i], [i \in 1..16 |-> i]}

\* Values of <Encrypt>: absent, the base64 text of a ciphertext, and a text
\* that is not base64.
EncryptValues ==
    {<<>>, <<42, 42, 42, 42>>} \cup {Base64Encode(d) : d \in Ciphertexts}

\* Requests of the platform and of others, for a client with the token t: the
\* signature right or wrong; GET with an echostr; POST with a body, its
\* msg_signature right or wrong.
HttpRequests(t) ==
    LET ts == <<49>>
        nonce == <<50>>
        sigs == {SignatureOf(t, ts, nonce), Sha1Hex(<<>>)}
    IN  {Request("GET", sig, ts, nonce, Sha1Hex(<<>>), echo, BodyNone) :
            sig \in sigs, echo \in EchoStrings}
        \cup {Request("POST", sig, ts, nonce, Sha1Hex(<<>>), <<>>, body) :
                sig \in sigs, body \in {BodyUnreadable, BodyBadXml}}
        \cup UNION {{Request("POST", sig, ts, nonce, msig, <<>>, BodyXml(<<116>>, enc)) :
                        sig \in sigs,
                        msig \in {MsgSignature(t, ts, nonce, enc), Sha1Hex(<<>>)}} :
                     enc \in EncryptValues}

\* A verification request whose signature is that of a request with the
\* timestamp (side 1) or the nonce (side 2) replaced by x.
SignRequest(t, timestamp, nonce, x, side) ==
    Request("GET",
            IF side = 1 THEN SignatureOf(t, x, nonce)
                        ELSE SignatureOf(t, timestamp, x),
            timestamp, nonce, Sha1Hex(<<>>), <<>>, BodyNone)

\* Messages and events in the clear, with a right signature.
MsgTypes == {MsgTypeText, MsgTypeImage, MsgTypeVideo, MsgTypeShortVideo, msgEvent}
Events == {EventSubscribe, EventClick}

EventRequests(t) ==
    LET ts == <<49>>
        nonce == <<50>>
        sig == SignatureOf(t, ts, nonce)
    IN  {Request("POST", sig, ts, nonce, Sha1Hex(<<>>), <<>>,
                 BodyEvent(mt, IF mt = msgEvent THEN ev ELSE <<>>, "u", "gh")) :
            mt \in MsgTypes, ev \in Events}

\* ServeHTTP is called with a message or an event, on a client with the token
\* "22" and no key.
ServeEvent ==
    /\ srv.pc = "idle"
    /\ \E req \in EventRequests(<<50, 50>>) :
          srv' = AfterSignature(NewSrv(Client(<<50, 50>>, <<>>), req))
    /\ UNCHANGED cvars

\* ServeHTTP is called with a request, on a client with the token "22" and some
\* key.
ServeStart ==
    /\ srv.pc = "idle"
    /\ \E key \in Keys : \E req \in HttpRequests(<<50, 50>>) :
          srv' = AfterSignature(NewSrv(Client(<<50, 50>>, key), req))
    /\ UNCHANGED cvars

\* ServeHTTP is called with a verification request, on a client with some
\* token.
ServeVerify ==
    /\ srv.pc = "idle"
    /\ \E t \in Tokens, ts \in FormStrings, nonce \in FormStrings,
          x \in FormStrings, side \in {1, 2} :
          srv' = AfterSignature(NewSrv(Client(t, <<>>),
                                       SignRequest(t, ts, nonce, x, side)))
    /\ UNCHANGED cvars

\* ------------------------------------------------------------ cache stores
CacheKeys == {"k1", "k2"}
CacheTokens == {AccessToken(tok, MaxTTL) : tok \in TokenStrings}

\* m[k] = v of a Go map
MapSet(m, k, v) == [x \in DOMAIN m \cup {k} |-> IF x = k THEN v ELSE m[x]]

\* func (s *MemoryCacheStore) Set(k string, v AccessToken) error
MemoryCacheStore_Set ==
    /\ \E k \in CacheKeys, v \in CacheTokens :
          /\ mp' = MapSet(mp, k, v)
          /\ lastSet' = MapSet(lastSet, k, v)
    /\ UNCHANGED <<now, token, refreshToken, bpc, iter, proc, refreshedAt, tvars, srv, appvars, routes, log, jsapi, upload, redisData, cacheGot>>

\* v, ok := s.mp[k]; if !ok { return AccessToken{}, nil }; return v, nil
MemoryGet(m, k) ==
    IF k \notin DOMAIN m THEN Got("memory", k, ZeroToken, FALSE, "missing")
    ELSE Got("memory", k, m[k], FALSE, "hit")

\* func (s *MemoryCacheStore) Get(k string) (AccessToken, error)
MemoryCacheStore_Get ==
    /\ \E k \in CacheKeys : cacheGot' = MemoryGet(mp, k)
    /\ UNCHANGED <<now, token, refreshToken, bpc, iter, proc, refreshedAt, tvars, srv, appvars, routes, log, jsapi, upload, mp, redisData, lastSet>>

\* json.Marshal(v) of an AccessToken: the text of an object with its two
\* fields.
JsonMarshal(v) == [text |-> "object", Token |-> v.Token, Expires |-> v.Expires]

\* Texts that another client of the server stored: one that is not JSON, and
\* an object whose Token is a number.
OtherTexts == {[text |-> "notjson", Token |-> "", Expires |-> 0],
               [text |-> "badtype", Token |-> "", Expires |-> 0]}

\* json.Unmarshal([]byte(res), &accToken)
JsonUnmarshal(res) ==
    IF res.text = "object"
    THEN [ok |-> TRUE, v |-> AccessToken(res.Token, res.Expires)]
    ELSE [ok |-> FALSE, v |-> ZeroToken]

\* func (s *RedisCacheStore) Set(k string, v AccessToken) error: the command
\* succeeds, or it fails (server down, 5 s timeout) with the value stored or
\* not.
RedisCacheStore_Set ==
    /\ \E k \in CacheKeys, v \in CacheTokens, stored \in BOOLEAN :
          redisData' = IF stored THEN MapSet(redisData, k, JsonMarshal(v))
                       ELSE redisData
    /\ UNCHANGED <<now, token, refreshToken, bpc, iter, proc, refreshedAt, tvars, srv, appvars, routes, log, jsapi, upload, mp, cacheGot, lastSet>>

\* Another client of the Redis server stores a text under a key.
RedisOther ==
    /\ \E k \in CacheKeys, text \in OtherTexts :
          redisData' = MapSet(redisData, k, text)
    /\ UNCHANGED <<now, token, refreshToken, bpc, iter, proc, refreshedAt, tvars, srv, appvars, routes, log, jsapi, upload, mp, cacheGot, lastSet>>

\* Faulty variant: the error of the store is returned.
RedisGet_PropagateErr(data, k, fail) ==
    IF fail THEN Got("redis", k, ZeroToken, TRUE, "storeerr")
    ELSE IF k \notin DOMAIN data THEN Got("redis", k, ZeroToken, FALSE, "missing")
    ELSE LET u == JsonUnmarshal(data[k])
         IN  IF ~u.ok THEN Got("redis", k, ZeroToken, FALSE, "undecodable")
             ELSE Got("redis", k, u.v, FALSE, "hit")

\* res, err := s.client.get(k); if err != nil { return AccessToken{}, nil }
\* if err = json.Unmarshal(...); err != nil { return AccessToken{}, nil }
\* The command fails (`fail`), or the key is missing (redis.Nil, an error
\* too), or the text is read.
RedisGet(data, k, fail) ==
    IF fail THEN Got("redis", k, ZeroToken, FALSE, "storeerr")
    ELSE IF k \notin DOMAIN data THEN Got("redis", k, ZeroToken, FALSE, "missing")
    ELSE LET u == JsonUnmarshal(data[k])
         IN  IF ~u.ok THEN Got("redis", k, ZeroToken, FALSE, "undecodable")
             ELSE Got("redis", k, u.v, FALSE, "hit")

\* func (s *RedisCacheStore) Get(k string) (AccessToken, error)
RedisCacheStore_Get ==
    /\ \E k \in CacheKeys, fail \in BOOLEAN :
          cacheGot' = RedisGet(redisData, k, fail)
    /\ UNCHANGED <<now, token, refreshToken, bpc, iter, proc, refreshedAt, tvars, srv, appvars, routes, log, jsapi, upload, mp, redisData, lastSet>>

\* ---------------------------------------------------------- specification
\* Faulty variant: the goroutines are started whenever an app id is given.
Started_AppIdOnly(appid, secret) == appid # ""

\* if len(appid) > 0 && len(secret) > 0 { ... go wx.createAccessToken ...
\* go createJsAPITicket ... }
Started(appid, secret) == appid # "" /\ secret # ""

\* The state after New(token, appid, secret): refreshToken is 0, no route is
\* registered, and the two goroutines have been started if both credentials
\* were given ("off": never started).  The cache stores are new and empty.
New(appid, secret) ==
    /\ now = 1
    /\ token = ZeroToken
    /\ refreshToken = 0
    /\ bpc = IF Started(appid, secret) THEN "start" ELSE "off"
    /\ iter = NoIter
    /\ proc = [p \in Goroutines |-> IdleProc]
    /\ refreshedAt = 0
    /\ ticket = jsAPITicket("", 0)
    /\ tpc = IF Started(appid, secret) THEN "start" ELSE "off"
    /\ titer = NoTIter
    /\ srv = IdleSrv
    /\ appID = appid
    /\ appSecret = secret
    /\ routes = <<>>
    /\ mp = <<>>
    /\ redisData = <<>>
    /\ cacheGot = NoGet
    /\ lastSet = <<>>
    /\ log = <<>>
    /\ jsapi = NoJsAPICall
    /\ upload = NoUpload

\* A client created with credentials.
Init == New("wxid", "secret")

\* A client created with or without an app id, with or without a secret.
InitNew ==
    \E appid \in {"", "wxid"}, secret \in {"", "secret"} : New(appid, secret)

\* Two goroutines use the client at once: p1 reads the token, forces a refresh
\* or posts a message; p2 reads the token or forces a refresh.
OpsOf(p) ==
    IF p = "p1" THEN {"GetAccessToken", "RefreshAccessToken", "postRequest"}
    ELSE {"GetAccessToken", "RefreshAccessToken"}

Next ==
    \/ Tick
    \/ BStart
    \/ BCheck
    \/ BAuth
    \/ \E p \in Procs : CallRefreshAccessToken(p)
    \/ \E p \in Procs : \E op \in OpsOf(p) \ {"RefreshAccessToken"} : CallReader(p, op)
    \/ \E p \in Procs : Deliver(p)
    \/ \E p \in Procs : GetAccessTokenCheck(p)
    \/ \E p \in Procs : ExecCheck(p)
    \/ \E p \in Procs : ExecReply(p)
    \/ \E p \in Procs : Return(p)

Spec == Init /\ [][Next]_vars

\* Each goroutine makes one call, p1 RefreshAccessToken and p2 GetAccessToken
\* or RefreshAccessToken, and every step on tokenChan and on the flag is
\* written to the log.
NextLog ==
    \/ Tick
    \/ BStartLog
    \/ BCheckLog
    \/ BAuthLog
    \/ \E p \in Procs : CallRefreshAccessTokenLog(p)
    \/ CallReader("p2", "GetAccessToken")
    \/ \E p \in Procs : DeliverLog(p)
    \/ \E p \in Procs : GetAccessTokenCheck(p)

SpecLog == Init /\ [][NextLog]_vars

\* p2 may make one GetAccessToken call (it takes the seed); when that call has
\* returned, or without it, p1 makes one postRequest call.  Every step on
\* tokenChan and every HTTP call is written to the log.
NextSent ==
    \/ Tick
    \/ BStartLog
    \/ BCheckLog
    \/ BAuthLog
    \/ proc["p1"].pc = "idle" /\ CallReader("p2", "GetAccessToken")
    \/ proc["p2"].pc \in {"idle", "done"} /\ CallReader("p1", "postRequest")
    \/ \E p \in Procs : DeliverLog(p)
    \/ GetAccessTokenCheck("p2")
    \/ ExecCheckLog("p1")
    \/ ExecReply("p1")

SpecSent == Init /\ [][NextSent]_vars

\* One goroutine makes every call of the API, one call after the other.
NextExec ==
    \/ Tick
    \/ BStart
    \/ BCheck
    \/ BAuth
    \/ CallRefreshAccessToken("p1")
    \/ \E op \in Ops \ {"RefreshAccessToken"} : CallReader("p1", op)
    \/ Deliver("p1")
    \/ GetAccessTokenCheck("p1")
    \/ ExecCheck("p1")
    \/ ExecReply("p1")
    \/ Return("p1")

SpecExec == Init /\ [][NextExec]_vars

\* p2 may make one GetAccessToken call (it takes the seed); when that call has
\* returned, or without it, p1 makes one UploadMedia call.
NextUpload ==
    \/ Tick
    \/ BStart
    \/ BCheck
    \/ BAuth
    \/ proc["p1"].pc = "idle" /\ CallReader("p2", "GetAccessToken")
    \/ proc["p2"].pc \in {"idle", "done"} /\ CallUploadMedia("p1")
    \/ \E p \in Procs : Deliver(p)
    \/ GetAccessTokenCheck("p2")
    \/ UploadCheck("p1")
    \/ ExecReply("p1")

SpecUpload == Init /\ [][NextUpload]_vars

\* RefreshAccessToken (p1) beside a goroutine that keeps reading the token (p2).
NextFair ==
    \/ Tick
    \/ BStart
    \/ BCheck
    \/ BAuth
    \/ CallRefreshAccessToken("p1")
    \/ CallReader("p2", "GetAccessToken")
    \/ \E p \in Procs : Deliver(p)
    \/ GetAccessTokenCheck("p2")
    \/ \E p \in Procs : Return(p)

\* createAccessToken keeps running and authAccessToken returns (its HTTP call
\* ends); a receiver blocked on tokenChan is served after finitely many sends
\* (the Go runtime queues the receivers of a channel first come, first served).
Fairness ==
    /\ WF_vars(BStart)
    /\ WF_vars(BCheck)
    /\ WF_vars(BAuth)
    /\ \A p \in Procs : SF_vars(Deliver(p))

SpecFair == Init /\ [][NextFair]_vars /\ Fairness

\* RefreshAccessToken (p1) beside GetAccessToken (p2), the time of each token
\* written down.
NextTimed ==
    \/ Tick
    \/ BStart
    \/ BCheck
    \/ BAuthTimed
    \/ CallRefreshAccessToken("p1")
    \/ CallReader("p2", "GetAccessToken")
    \/ \E p \in Procs : Deliver(p)
    \/ GetAccessTokenCheck("p2")
    \/ \E p \in Procs : Return(p)

SpecTimed == Init /\ [][NextTimed]_vars

\* Both background goroutines of New, and GetJsAPITicket calls that take the
\* tickets.
NextTicket ==
    \/ Tick
    \/ BStart
    \/ BCheck
    \/ BAuth
    \/ TStart
    \/ TDeliver
    \/ TCheck
    \/ Deliver(TicketProc)
    \/ ExecCheck(TicketProc)
    \/ ExecReply(TicketProc)
    \/ TGot

SpecTicket == Init /\ [][NextTicket]_vars

\* Both background goroutines of New, and one goroutine (p1) that calls
\* GetAccessToken and GetJsAPITicket, one after the other.
NextAccess ==
    \/ Tick
    \/ BStart
    \/ BCheck
    \/ BAuth
    \/ TStart
    \/ TCheck
    \/ TGot
    \/ \E g \in {TicketProc, "p1"} : Deliver(g)
    \/ ExecCheck(TicketProc)
    \/ ExecReply(TicketProc)
    \/ proc["p1"].pc = "idle" /\ CallGetJsAPITicket
    \/ TReceive
    \/ GetJsAPITicketCheck
    \/ GetJsAPITicketReturn
    \/ jsapi.pc = "idle" /\ CallReader("p1", "GetAccessToken")
    \/ GetAccessTokenCheck("p1")
    \/ Return("p1")

SpecAccess == Init /\ [][NextAccess]_vars

\* Both background goroutines of New, a goroutine that keeps calling
\* GetAccessToken (p1) and, at the same time, one that keeps calling
\* GetJsAPITicket.  The clock stands still.
NextLive ==
    \/ BStart
    \/ BCheck
    \/ BAuth
    \/ TStart
    \/ TCheck
    \/ TGot
    \/ \E g \in {TicketProc, "p1"} : Deliver(g)
    \/ ExecCheck(TicketProc)
    \/ ExecReply(TicketProc)
    \/ CallGetJsAPITicket
    \/ TReceive
    \/ GetJsAPITicketCheck
    \/ GetJsAPITicketReturn
    \/ CallReader("p1", "GetAccessToken")
    \/ GetAccessTokenCheck("p1")
    \/ Return("p1")

\* Both background goroutines keep running and their HTTP calls return
\* (BAuth, ExecReply of createJsAPITicket's sendGetRequest); a caller that has
\* received goes on to its test; a receiver blocked on tokenChan or ticketChan
\* is served after finitely many sends (the Go runtime queues the receivers of
\* a channel first come, first served).  Whether a caller calls again is up to
\* the caller.
FairnessLive ==
    /\ WF_vars(BStart)
    /\ WF_vars(BCheck)
    /\ WF_vars(BAuth)
    /\ WF_vars(TStart)
    /\ WF_vars(TCheck)
    /\ WF_vars(TGot)
    /\ WF_vars(ExecCheck(TicketProc))
    /\ WF_vars(ExecReply(TicketProc))
    /\ WF_vars(GetAccessTokenCheck("p1"))
    /\ WF_vars(GetJsAPITicketCheck)
    /\ \A g \in {TicketProc, "p1"} : SF_vars(Deliver(g))
    /\ SF_vars(TReceive)

SpecLive == Init /\ [][NextLive]_vars /\ FairnessLive

\* The same, beside a goroutine that calls RefreshAccessToken once (p1).
NextTicketRefresh ==
    \/ NextTicket
    \/ CallRefreshAccessToken("p1")
    \/ Deliver("p1")

SpecTicketRefresh == Init /\ [][NextTicketRefresh]_vars

\* One goroutine makes the calls that go to the network, beside
\* createAccessToken.
NextNet ==
    \/ Tick
    \/ BStart
    \/ BCheck
    \/ BAuth
    \/ \E op \in Executors : CallReader("p1", op)
    \/ Deliver("p1")
    \/ ExecCheck("p1")
    \/ ExecReply("p1")
    \/ Return("p1")

\* Every goroutine that can take a step of its own takes it, and a receiver
\* blocked on tokenChan is served.  The end of an HTTP call (BAuth, ExecReply)
\* is the remote side's step: http.Get and http.Post use http.DefaultClient,
\* whose Timeout is zero, and no context, so nothing in the program ends a call
\* that is not answered.
FairnessNet ==
    /\ WF_vars(BStart)
    /\ WF_vars(BCheck)
    /\ SF_vars(Deliver("p1"))
    /\ WF_vars(ExecCheck("p1"))
    /\ WF_vars(Return("p1"))

SpecNet == Init /\ [][NextNet]_vars /\ FairnessNet

\* The two cache stores are used, the Redis server by other clients too.
NextStore ==
    \/ MemoryCacheStore_Set
    \/ MemoryCacheStore_Get
    \/ RedisCacheStore_Set
    \/ RedisOther
    \/ RedisCacheStore_Get

SpecStore == Init /\ [][NextStore]_vars

\* The webhook serves one request.
NextHTTP ==
    \/ ServeStart
    \/ ServeGet
    \/ ServeRead
    \/ ServeEnvelope
    \/ ServeDecrypt
    \/ ServeRoute
    \/ ServeHandler
    \/ HandleFunc

SpecHTTP == Init /\ [][NextHTTP]_vars

\* Handlers are registered, then the webhook serves one message or event.
NextRoute ==
    \/ HandleFunc
    \/ ServeEvent
    \/ ServeRead
    \/ ServeEnvelope
    \/ ServeRoute
    \/ ServeHandler

SpecRoute == Init /\ [][NextRoute]_vars

\* A client of either kind: one goroutine calls RefreshAccessToken once,
\* handlers are registered and the webhook serves one message or event.
NextNew ==
    \/ BStart
    \/ BCheck
    \/ BAuth
    \/ CallRefreshAccessToken("p1")
    \/ Deliver("p1")
    \/ NextRoute

SpecNew == InitNew /\ [][NextNew]_vars

\* A client created with or without credentials, and one goroutine (p1) that
\* makes every call that reads tokenChan or ticketChan, one after the other.
\* The clock stands still.
NextCalls ==
    \/ BStart
    \/ BCheck
    \/ BAuth
    \/ TStart
    \/ TCheck
    \/ TGot
    \/ \E g \in {TicketProc, "p1"} : Deliver(g)
    \/ \E g \in {TicketProc, "p1"} : ExecCheck(g)
    \/ \E g \in {TicketProc, "p1"} : ExecReply(g)
    \/ jsapi.pc = "idle" /\ CallRefreshAccessToken("p1")
    \/ jsapi.pc = "idle" /\ \E op \in Ops \ {"RefreshAccessToken"} : CallReader("p1", op)
    \/ GetAccessTokenCheck("p1")
    \/ Return("p1")
    \/ proc["p1"].pc = "idle" /\ CallGetJsAPITicket
    \/ TReceive
    \/ GetJsAPITicketCheck
    \/ GetJsAPITicketReturn

SpecCalls == InitNew /\ [][NextCalls]_vars

\* The webhook serves one verification request.
NextSign ==
    \/ ServeVerify
    \/ ServeGet

SpecSign == Init /\ [][NextSign]_vars

TypeOK ==
    /\ now \in 1..MaxTime
    /\ refreshToken \in {0, 1}
    /\ bpc \in {"off", "start", "seed", "check", "auth", "send"}
    /\ token.Token \in TokenStrings \cup {""}
    /\ token.Expires \in 0..(MaxTime + MaxTTL)
    /\ iter.auth \in {"none", "ok", "fail"}
    /\ \A p \in Procs :
          /\ proc[p].pc \in {"idle", "recv", "chk", "http", "done"}
          /\ proc[p].op \in Ops \cup {"none"}
          /\ proc[p].authsSince \in 0..CountCap
          /\ proc[p].servedAhead \in 0..CountCap

\* ------------------------------------------------------------------ claims
\* Attempts of the call so far: the ended ones and the one in progress.
Attempts(pr) == Len(pr.trace) + (IF pr.pc \in {"chk", "http"} THEN 1 ELSE 0)

\* HTTP calls the attempts account for: every ended attempt but a skipped one
\* and one that failed while the upload body was built, and the call in flight.
Requests(pr) ==
    Cardinality({k \in DOMAIN pr.trace :
                    pr.trace[k] \notin {"skip", "formerr", "bodyerr"}})
    + (IF pr.pc = "http" THEN 1 ELSE 0)

ExecProcs == {p \in Procs : proc[p].op \in Executors}

\* C2: in every executor, a reply envelope whose errcode is neither 0 nor 42001
\* ends the call at once with a failure that carries that errcode: the call is
\* over, and it made no channel receive after the attempt that got the reply.
C2_OtherCodeFailsAtOnce ==
    \A p \in ExecProcs :
        LET pr == proc[p] IN
        (pr.reply.kind = "envelope" /\ pr.reply.code \notin {0, ErrTokenExpired})
        => /\ pr.pc = "done"
           /\ pr.result.kind = "apierr"
           /\ pr.result.code = pr.reply.code
           /\ pr.reads = Len(pr.trace)
           /\ pr.reqs = Requests(pr)

C2_Witness ==
    \E p \in ExecProcs :
        /\ proc[p].op = "uploadMedia"
        /\ proc[p].trace = <<"e42001", "apierr">>
        /\ proc[p].result = Result("apierr", -1, ZeroToken)

\* C3: every attempt that ends in errcode 42001 is followed by one more attempt
\* as long as fewer than 3 attempts were used, and by the end of the call when
\* it was the third; each attempt makes one channel receive and at most one
\* HTTP call, and a call makes at most 3 of each.
C3_RetryOncePer42001 ==
    \A p \in ExecProcs :
        LET pr == proc[p] IN
        /\ pr.reads <= retryMaxN
        /\ pr.reqs <= retryMaxN
        /\ pr.reads = Attempts(pr)
        /\ pr.reqs = Requests(pr)
        /\ \A k \in DOMAIN pr.trace :
              pr.trace[k] = "e42001"
              => IF k < retryMaxN
                 THEN Len(pr.trace) > k \/ (pr.pc \in {"recv", "chk", "http"} /\ pr.i = k)
                 ELSE pr.pc = "done" /\ pr.result.kind = "toomany"

C3_Witness ==
    \E p \in ExecProcs :
        /\ proc[p].trace = <<"e42001", "e42001", "e42001">>
        /\ proc[p].reads = 3
        /\ proc[p].reqs = 3
        /\ proc[p].result.kind = "toomany"

\* C4: an executor call that has returned returned "too many" exactly when it
\* made 3 attempts and each was skipped for a stale token or answered 42001.
C4_TooManyExactlyWhenExhausted ==
    \A p \in ExecProcs :
        LET pr == proc[p] IN
        pr.pc = "done"
        => (pr.result.kind = "toomany"
            <=> /\ Len(pr.trace) = retryMaxN
                /\ \A k \in DOMAIN pr.trace : pr.trace[k] \in {"skip", "e42001"})

C4_Witness ==
    \E p \in ExecProcs :
        /\ proc[p].op = "downloadMedia"
        /\ proc[p].trace = <<"skip", "e42001", "skip">>
        /\ proc[p].result.kind = "toomany"

\* C5: an HTTP call in flight never carries a token that was already expired
\* when it was received, and the step after the receive of an expired token
\* ends the attempt as skipped: one more attempt used, no HTTP call made.
C5_StaleReadSkipsAttempt ==
    /\ [](\A p \in ExecProcs : proc[p].pc = "http" => ~proc[p].readStale)
    /\ [][\A p \in Procs :
            (/\ proc[p].op \in Executors
             /\ proc[p].pc = "chk"
             /\ proc[p].readStale
             /\ proc'[p] # proc[p])
            => /\ proc'[p].trace = Append(proc[p].trace, "skip")
               /\ proc'[p].i = proc[p].i + 1
               /\ proc'[p].reqs = proc[p].reqs
               /\ proc'[p].pc # "http"]_vars

C5_Witness ==
    \E p \in ExecProcs :
        /\ proc[p].pc = "http"
        /\ proc[p].trace = <<"skip">>
        /\ proc[p].reqs = 1
        /\ proc[p].reads = 2

\* C6: a failed HTTP call or a failed read of the reply body ends the call at
\* once with that failure, whatever the number of attempts left.
C6_TransportFailureNotRetried ==
    \A p \in ExecProcs :
        LET pr == proc[p] IN
        pr.reply.kind \in {"neterr", "readerr", "mediaerr"}
        => /\ pr.pc = "done"
           /\ pr.result.kind = (IF pr.reply.kind = "mediaerr" THEN "copyerr"
                                ELSE pr.reply.kind)
           /\ pr.reads = Len(pr.trace)
           /\ pr.reqs = Requests(pr)

C6_Witness ==
    \E p \in ExecProcs :
        /\ proc[p].pc = "done"
        /\ proc[p].reply.kind = "readerr"
        /\ proc[p].trace = <<"readerr">>
        /\ proc[p].i = 0

\* C1, as stated: whenever a caller receives a value that is expired at the
\* moment of the receive, createAccessToken called the token endpoint in the
\* loop iteration that sends it.
C1_StaleOnlyAfterAttempt ==
    [][\A p \in Procs :
          (Deliver(p) /\ Expired(token, now)) => iter.auth # "none"]_vars

\* C1, amended: whenever a caller receives a value other than the seed, and the
\* value was expired when createAccessToken tested it for that send, the token
\* endpoint was called in that loop iteration.
C1_CheckedStaleOnlyAfterAttempt ==
    [][\A p \in Procs :
          (Deliver(p) /\ ~iter.seed /\ iter.expired) => iter.auth # "none"]_vars

\* A caller has just received an expired value that a failed call of the token
\* endpoint left behind.
C1_Witness ==
    /\ bpc = "check"
    /\ iter.expired
    /\ iter.auth = "fail"
    /\ \E p \in Procs :
          proc[p].pc = "chk" /\ proc[p].readStale /\ proc[p].tok = token

\* C7: when the call of the token endpoint fails, createAccessToken's token is
\* the same after the call as before it (same string, same expiry).
C7_FailedRefreshKeepsCredential ==
    [][(bpc = "auth" /\ iter'.auth = "fail") => token' = token]_vars

\* C8, as stated: when RefreshAccessToken has returned, a call of the token
\* endpoint was started after it stored the flag and before it received.
C8_ReceivesRefreshedValue ==
    \A p \in Procs :
        (proc[p].op = "RefreshAccessToken" /\ proc[p].pc = "done")
        => proc[p].authsSince >= 1

\* C8, amended: when RefreshAccessToken returns, either a call of the token
\* endpoint was started after it stored the flag, or the flag is still set; and
\* the flag is cleared only by the test of createAccessToken that starts a call
\* of the token endpoint.
C8_RefreshedOrFlagPending ==
    [][/\ \A p \in Procs :
             (/\ proc[p].op = "RefreshAccessToken"
              /\ proc[p].pc = "recv"
              /\ proc'[p].pc = "done")
             => (proc'[p].authsSince >= 1 \/ refreshToken' = 1)
       /\ (refreshToken = 1 /\ refreshToken' = 0)
             => (bpc = "check" /\ bpc' = "auth")]_vars

\* RefreshAccessToken has returned with a value sent before any call of the
\* token endpoint, and the flag it stored is still set.
C8_Witness ==
    /\ refreshToken = 1
    /\ ~iter.seed
    /\ bpc = "check"
    /\ \E p \in Procs :
          /\ proc[p].op = "RefreshAccessToken"
          /\ proc[p].pc = "done"
          /\ proc[p].authsSince = 0

\* C10: createAccessToken's token changes only in its own steps (the seed and
\* the assignments after authAccessToken), in which no caller moves; the token
\* a caller holds changes only when that caller receives the current token or
\* drops its local; refreshToken is set only by a caller entering
\* RefreshAccessToken and cleared only by createAccessToken's test.
C10_OnlyOwnerChangesCredential ==
    [][/\ token' # token
             => (bpc \in {"start", "auth"} /\ bpc' # bpc /\ proc' = proc)
       /\ \A p \in Procs :
             proc'[p].tok # proc[p].tok
             => \/ proc[p].pc = "recv" /\ proc'[p].pc = "chk" /\ proc'[p].tok = token
                                       /\ token' = token
                \/ proc[p].pc \in {"chk", "http"} /\ proc'[p].tok = ZeroToken
       /\ \A p \in Procs :
             (proc'[p].result # proc[p].result)
             => (proc'[p].pc = "idle" \/ (proc[p].pc # "done" /\ proc'[p].pc = "done"))
       /\ (refreshToken = 0 /\ refreshToken' = 1)
             => \E p \in Procs : proc[p].pc = "idle" /\ proc'[p].pc = "recv"
                                 /\ proc'[p].op = "RefreshAccessToken"
       /\ (refreshToken = 1 /\ refreshToken' = 0) => bpc = "check"]_vars

\* Two callers hold different tokens and createAccessToken holds a third.
C10_Witness ==
    /\ proc["p1"].pc = "http"
    /\ proc["p2"].pc = "chk"
    /\ proc["p1"].tok # proc["p2"].tok
    /\ token # proc["p1"].tok
    /\ token # proc["p2"].tok

RefreshWaiting(p) == proc[p].op = "RefreshAccessToken" /\ proc[p].pc = "recv"

\* C9, as stated: RefreshAccessToken, once it has stored the flag, returns, and
\* at most one call of the token endpoint is started while it waits.
C9_ReturnsWithinOneCycle ==
    /\ \A p \in Procs : RefreshWaiting(p) ~> (proc[p].pc = "done")
    /\ [](\A p \in Procs :
             proc[p].op = "RefreshAccessToken" => proc[p].authsSince <= 1)

\* C9, amended: RefreshAccessToken, once it has stored the flag, returns; the
\* calls of the token endpoint started while it waits are at most one more than
\* the values handed to other callers in that time.
C9_ReturnsWithinOneCyclePerReader ==
    /\ \A p \in Procs : RefreshWaiting(p) ~> (proc[p].pc = "done")
    /\ [](\A p \in Procs :
             proc[p].op = "RefreshAccessToken"
             => proc[p].authsSince <= proc[p].servedAhead + 1)

\* RefreshAccessToken has returned after another caller was served before it
\* and two calls of the token endpoint were started.
C9_Witness ==
    \E p \in Procs :
        /\ proc[p].op = "RefreshAccessToken"
        /\ proc[p].pc = "done"
        /\ proc[p].servedAhead = 1
        /\ proc[p].authsSince = 2

\* C11: when the token endpoint last answered with a token at time t and no call
\* of it has failed since, every value a caller receives is createAccessToken's
\* token and its expiry is not before t.
C11_FreshnessMonotone ==
    [][\A p \in Procs :
          (Deliver(p) /\ refreshedAt # 0)
          => /\ refreshedAt <= token.Expires
             /\ proc'[p].pc = "chk" => proc'[p].tok = token]_vars

\* A caller holds a token that the endpoint answered and that had expired by
\* the time it was received.
C11_Witness ==
    /\ refreshedAt # 0
    /\ \E p \in Procs :
          /\ proc[p].pc = "chk"
          /\ proc[p].readStale
          /\ proc[p].tok = token
          /\ token.Token # ""
          /\ refreshedAt < token.Expires

\* C12: createAccessToken leaves its start only by sending the seed, an empty
\* token whose expiry is not in the future; the token endpoint is called only
\* after a send; and a caller that waits for the first value receives it.
C12_SeedPublishedFirst ==
    /\ [](bpc \in {"start", "seed"} => iter.auth = "none")
    /\ [][/\ bpc' = "auth" => bpc \in {"check", "auth"}
          /\ (bpc = "start" /\ bpc' # bpc)
                => (bpc' = "seed" /\ token' = AccessToken("", now))
          /\ (bpc = "seed" /\ bpc' # bpc)
                => /\ bpc' = "check"
                   /\ token.Token = ""
                   /\ token.Expires <= now
                   /\ token' = token
                   /\ \E p \in Procs :
                         /\ Deliver(p)
                         /\ proc'[p].reads = 1
                         /\ proc'[p].pc = "chk"
                              => (proc'[p].tok = token /\ proc'[p].readStale)]_vars
    /\ (bpc \in {"start", "seed"} /\ \E p \in Procs : proc[p].pc = "recv")
          ~> (bpc = "check" /\ iter.seed)

\* GetAccessToken has received the seed as its first value.
C12_Witness ==
    /\ bpc = "check"
    /\ iter.seed
    /\ \E p \in Procs :
          /\ proc[p].op = "GetAccessToken"
          /\ proc[p].pc = "chk"
          /\ proc[p].reads = 1
          /\ proc[p].tok.Token = ""
          /\ proc[p].readStale

\* C13: a failed call leaves each background goroutine at its send with a value
\* that is expired: createAccessToken after authAccessToken failed (also when
\* the call was made for the refresh flag), createJsAPITicket after
\* getJsAPITicket failed.  From the send the goroutine moves only by handing the
\* value to a receiver, and its next test then makes the call again.
C13_FailedRefreshRetried ==
    /\ []((bpc = "send" /\ iter.auth = "fail") => Expired(token, now))
    /\ []((tpc = "send" /\ titer.got = "fail") => now >= ticket.expires)
    /\ [][/\ (bpc = "auth" /\ bpc' # bpc) => bpc' = "send"
          /\ (bpc = "send" /\ bpc' # bpc)
                => (bpc' = "check" /\ \E g \in Goroutines : Deliver(g))
          /\ (bpc = "check" /\ iter.auth = "fail" /\ bpc' # bpc) => bpc' = "auth"
          /\ (tpc = "get" /\ tpc' # tpc) => tpc' = "send"
          /\ (tpc = "send" /\ tpc' # tpc) => (tpc' = "check" /\ TDeliver)
          /\ (tpc = "check" /\ titer.got = "fail" /\ tpc' # tpc) => tpc' = "get"]_vars

\* A call made for the refresh flag, while the token was still valid, has
\* failed; and getJsAPITicket has failed.
C13_Witness ==
    /\ bpc = "send"
    /\ iter.swapped
    /\ ~iter.expired
    /\ iter.auth = "fail"
    /\ tpc = "send"
    /\ titer.got = "fail"

\* Every attempt of the call was skipped for a stale token.
AllSkipped(pr) == \A k \in DOMAIN pr.trace : pr.trace[k] = "skip"

\* C14: the sendGetRequest of getJsAPITicket has its HTTP call in flight only
\* with a token that was not expired when it was received; it makes one channel
\* receive per attempt and at most 3; a token received expired ends the attempt
\* with no HTTP call; and when every attempt was skipped, getJsAPITicket fails
\* after 3 receives with no HTTP call made.
C14_TicketCallsWithFreshToken ==
    /\ [](LET pr == proc[TicketProc] IN
            /\ pr.pc = "http" => ~pr.readStale
            /\ pr.reads <= retryMaxN
            /\ pr.reads = Attempts(pr)
            /\ pr.reqs = Requests(pr))
    /\ [][LET pr == proc[TicketProc] IN
          /\ (pr.pc = "chk" /\ pr.readStale /\ proc'[TicketProc] # pr)
                => /\ proc'[TicketProc].trace = Append(pr.trace, "skip")
                   /\ proc'[TicketProc].reqs = pr.reqs
          /\ (tpc = "get" /\ tpc' = "send" /\ AllSkipped(pr))
                => /\ titer'.got = "fail"
                   /\ pr.reads = retryMaxN
                   /\ pr.reqs = 0]_vars

\* The sendGetRequest of getJsAPITicket has returned after 3 receives of an
\* expired token, with no HTTP call.
C14_Witness ==
    LET pr == proc[TicketProc] IN
    /\ tpc = "get"
    /\ pr.pc = "done"
    /\ pr.result = TooMany
    /\ pr.trace = <<"skip", "skip", "skip">>
    /\ pr.reads = 3
    /\ pr.reqs = 0

\* The joins of a, b and c taken in an order in which none is followed by a
\* smaller one.
SortedJoins(a, b, c) ==
    {o[1] \o o[2] \o o[3] :
        o \in {p \in {<<a, b, c>>, <<a, c, b>>, <<b, a, c>>,
                       <<b, c, a>>, <<c, a, b>>, <<c, b, a>>} :
                  ~StrLess(p[2], p[1]) /\ ~StrLess(p[3], p[2])}}

\* The signature is the digest of the sorted join of t, timestamp and nonce.
SignatureMatches(t, signature, timestamp, nonce) ==
    \E j \in SortedJoins(t, timestamp, nonce) : signature = Sha1Hex(j)

\* C15, as stated: checkSignature succeeds exactly when the signature is the
\* digest of the sorted join of token, timestamp and nonce; and for a request
\* that it accepts, it rejects every request that differs in the token alone,
\* in the timestamp alone, in the nonce alone or in the signature alone.
C15_AnyChangeInvalidates ==
    srv.pc # "idle" =>
        LET t == srv.wx.token
            sig == srv.req.signature
            ts == srv.req.timestamp
            nonce == srv.req.nonce
        IN  /\ srv.sigok <=> SignatureMatches(t, sig, ts, nonce)
            /\ srv.sigok =>
                  /\ \A x \in FormStrings \ {ts} : ~checkSignature(t, sig, x, nonce)
                  /\ \A x \in FormStrings \ {nonce} : ~checkSignature(t, sig, ts, x)
                  /\ \A x \in Tokens \ {t} : ~checkSignature(x, sig, ts, nonce)
                  /\ \A x \in FormStrings :
                        SignatureOf(t, x, nonce) # sig
                        => ~checkSignature(t, SignatureOf(t, x, nonce), ts, nonce)

\* C15, amended: checkSignature succeeds exactly when the signature is the
\* digest of the sorted join of token, timestamp and nonce; for a request that
\* it accepts, it rejects every request that differs in the signature alone,
\* and it accepts a request that differs in the token, the timestamp or the
\* nonce alone exactly when the sorted join is the same string, which takes a
\* new value of the same length.
C15_ChangeInvalidatesUnlessSameJoin ==
    srv.pc # "idle" =>
        LET t == srv.wx.token
            sig == srv.req.signature
            ts == srv.req.timestamp
            nonce == srv.req.nonce
            same == SortedJoins(t, ts, nonce)
        IN  /\ srv.sigok <=> SignatureMatches(t, sig, ts, nonce)
            /\ srv.sigok =>
                  /\ \A x \in FormStrings :
                        /\ checkSignature(t, sig, x, nonce)
                              <=> SortedJoins(t, x, nonce) = same
                        /\ checkSignature(t, sig, x, nonce) => Len(x) = Len(ts)
                  /\ \A x \in FormStrings :
                        /\ checkSignature(t, sig, ts, x)
                              <=> SortedJoins(t, ts, x) = same
                        /\ checkSignature(t, sig, ts, x) => Len(x) = Len(nonce)
                  /\ \A x \in Tokens :
                        /\ checkSignature(x, sig, ts, nonce)
                              <=> SortedJoins(x, ts, nonce) = same
                        /\ checkSignature(x, sig, ts, nonce) => Len(x) = Len(t)
                  /\ \A x \in FormStrings :
                        SignatureOf(t, x, nonce) # sig
                        => ~checkSignature(t, SignatureOf(t, x, nonce), ts, nonce)

\* An accepted request whose strings were not in order, and that is still
\* accepted with another timestamp.
C15_Witness ==
    /\ srv.pc = "done"
    /\ srv.sigok
    /\ srv.status = 200
    /\ StrLess(srv.req.timestamp, srv.wx.token)
    /\ \E x \in FormStrings \ {srv.req.timestamp} :
          checkSignature(srv.wx.token, srv.req.signature, x, srv.req.nonce)

\* The request in service is a POST in encrypted mode: the client has a key and
\* the envelope an <Encrypt>.
EncryptedMode ==
    /\ srv.req.method = "POST"
    /\ srv.req.body.kind = "xml"
    /\ Len(srv.wx.encodingAESKey) > 0
    /\ Len(srv.req.body.Encrypt) > 0

\* The msg_signature of the request in service is the one its envelope takes.
MsgSignatureMatches ==
    srv.req.msg_signature
        = MsgSignature(srv.wx.token, srv.req.timestamp, srv.req.nonce,
                       srv.req.body.Encrypt)

\* C16: a request whose signature is not the digest of the sorted join of
\* token, timestamp and nonce is answered 401 in the first step, and nothing
\* else is done for it: no echo, no read of the body, no decoding, no cipher,
\* no handler.
C16_BadSignatureOnly401 ==
    (/\ srv.pc # "idle"
     /\ ~SignatureMatches(srv.wx.token, srv.req.signature,
                          srv.req.timestamp, srv.req.nonce))
    => /\ srv.pc = "done"
       /\ srv.status = 401
       /\ srv.out = <<10>>
       /\ ~srv.sigok
       /\ ~srv.read /\ ~srv.decoded
       /\ ~srv.cipher /\ ~srv.decrypted
       /\ srv.d = <<>> /\ srv.inner = <<>>
       /\ ~srv.handled /\ ~srv.panicked

\* A POST in encrypted mode, right in all but its signature, was answered 401.
C16_Witness ==
    /\ srv.pc = "done"
    /\ srv.status = 401
    /\ EncryptedMode
    /\ MsgSignatureMatches
    /\ srv.wx.encodingAESKey = AESKey
    /\ Len(srv.req.body.Encrypt) > 40

\* C17: a GET whose signature verifies is answered with the bytes of echostr.
C17_EchoVerbatim ==
    (srv.pc = "done" /\ srv.req.method = "GET" /\ srv.sigok)
    => (srv.status = 200 /\ srv.out = srv.req.echostr)

\* C18: the cipher is created and run only for an envelope whose msg_signature
\* matches; in encrypted mode a request with another msg_signature ends, when
\* it ends, with 400 and no handler.
C18_MsgSignatureBeforeCipher ==
    srv.pc # "idle" =>
        /\ (srv.cipher \/ srv.decrypted \/ srv.d # <<>> \/ srv.inner # <<>>)
              => (EncryptedMode /\ MsgSignatureMatches /\ srv.sigok)
        /\ (srv.sigok /\ EncryptedMode /\ ~MsgSignatureMatches)
              => /\ srv.pc \in {"method", "envelope", "done"}
                 /\ srv.pc = "done" => srv.status = 400
                 /\ ~srv.cipher /\ ~srv.decrypted
                 /\ ~srv.handled /\ ~srv.panicked

\* An envelope with a ciphertext of the platform and another msg_signature was
\* answered 400.
C18_Witness ==
    /\ srv.pc = "done"
    /\ srv.sigok
    /\ EncryptedMode
    /\ ~MsgSignatureMatches
    /\ srv.wx.encodingAESKey = AESKey
    /\ Base64Decode(srv.req.body.Encrypt).ok
    /\ Len(Base64Decode(srv.req.body.Encrypt).bytes) = 32
    /\ srv.status = 400

\* C19: a POST whose signature verifies ends with a status written, by a
\* handler or the router (200, 404) or as a failure (400, no handler invoked);
\* it never ends with nothing written.
C19_EveryFailureIs400 ==
    (srv.pc = "done" /\ srv.req.method = "POST" /\ srv.sigok)
    => /\ ~srv.panicked
       /\ srv.status \in {200, 400, 404}
       /\ srv.status = 400 => ~srv.handled

\* C20: for the ciphertext of a plaintext built from a prefix, a payload and
\* trailing bytes, in an envelope whose signatures verify, the bytes given to
\* the second xml.Unmarshal are the payload.
C20_DecryptRoundTrip ==
    \A pre \in Prefixes, pl \in Payloads, tr \in Trails :
        LET c == CBCEncrypt(AESKey, Slice(AESKey, 0, BlockSize),
                            PlainOf(pre, pl, tr))
        IN  (/\ srv.pc \in {"route", "handler", "done"}
             /\ srv.sigok
             /\ EncryptedMode
             /\ MsgSignatureMatches
             /\ srv.wx.encodingAESKey = AESKey
             /\ srv.req.body.Encrypt = Base64Encode(c))
            => /\ srv.decrypted
               /\ ~srv.panicked
               /\ srv.d = c
               /\ srv.inner = pl

\* A payload that was followed by trailing bytes has been decoded and goes to
\* the router.
C20_Witness ==
    /\ srv.pc = "route"
    /\ srv.decrypted
    /\ srv.inner = <<60, 121, 47, 62>>
    /\ \E pre \in Prefixes :
          srv.d = CBCEncrypt(AESKey, Slice(AESKey, 0, BlockSize),
                             PlainOf(pre, <<60, 121, 47, 62>>, <<119, 120>>))

\* The routing key of the message in service: its MsgType, and for an event
\* "event." and its Event.
RoutingKey ==
    LET msg == srv.req.body
    IN  IF msg.MsgType = msgEvent THEN msgEvent \o <<46>> \o msg.Event
        ELSE msg.MsgType

\* The routes whose pattern is found in the routing key, by number.
Matching == {i \in 1..Len(routes) : MatchString(routes[i].regex, RoutingKey)}

\* The message in service passed the signature test and was decoded.
Routed == srv.pc \in {"handler", "done"} /\ srv.sigok /\ srv.decoded
          /\ srv.req.body.kind = "xml"

\* C21: routeRequest invokes at most one handler for a message, however many
\* routes match its routing key; a handler is invoked once.
C21_AtMostOneHandler ==
    srv.pc # "idle" =>
        /\ Len(srv.invoked) <= 1
        /\ srv.handled <=> Len(srv.invoked) = 1

\* A message that two routes match was handled.
C21_Witness ==
    /\ srv.pc = "done"
    /\ srv.handled
    /\ Cardinality(Matching) = 2

\* C22: the handler invoked is that of the first registered route that matches
\* the routing key; with "text" then "event\.subscribe" registered, a subscribe
\* event invokes the second handler and a text message the first.
C22_FirstRegisteredMatch ==
    Routed =>
        /\ srv.handled =>
              /\ Matching # {}
              /\ \E i \in Matching :
                    /\ \A j \in Matching : i <= j
                    /\ srv.invoked = <<routes[i].handler>>
                    /\ routes[i].handler = i
        /\ (/\ Len(routes) = 2
            /\ routes[1].regex = Compile(MsgTypeText)
            /\ routes[2].regex = Compile(MsgTypeEventSubscribe))
           => /\ RoutingKey = msgEvent \o <<46>> \o EventSubscribe
                    => srv.invoked = <<2>>
              /\ RoutingKey = MsgTypeText => srv.invoked = <<1>>

\* With "text" then "event\.subscribe" registered, a subscribe event invoked
\* the second handler.
C22_Witness ==
    /\ srv.pc = "done"
    /\ Len(routes) = 2
    /\ routes[1].regex = Compile(MsgTypeText)
    /\ routes[2].regex = Compile(MsgTypeEventSubscribe)
    /\ srv.req.body.MsgType = msgEvent
    /\ srv.req.body.Event = EventSubscribe
    /\ srv.invoked = <<2>>

\* C23: the pattern of the route whose handler is invoked matches the whole
\* routing key.
C23_WholeKeyMatch ==
    Routed =>
        \A i \in 1..Len(routes) :
            srv.invoked = <<routes[i].handler>>
            => MatchHere(routes[i].regex, RoutingKey, TRUE)

\* C24: a message that passed the signature test and was decoded, and that no
\* route matches, is answered 404: no handler is invoked and no reply written.
C24_NoMatchIs404 ==
    (Routed /\ Matching = {})
    => /\ srv.pc = "done"
       /\ srv.status = 404
       /\ ~srv.handled
       /\ srv.invoked = <<>>
       /\ srv.reply = NoMsg

\* An image message was answered 404 by a client with two routes.
C24_Witness ==
    /\ srv.pc = "done"
    /\ srv.status = 404
    /\ Len(routes) = 2
    /\ srv.req.body.MsgType = MsgTypeImage

\* C25: every reply written through the writer goes to the sender of the
\* message and comes from its recipient.
C25_RepliesSwapParties ==
    (srv.pc = "done" /\ srv.reply # NoMsg)
    => /\ srv.reply.header.ToUserName = srv.req.body.FromUserName
       /\ srv.reply.header.FromUserName = srv.req.body.ToUserName

\* C26: every network call ends: authAccessToken returns to createAccessToken,
\* the HTTP call of an executor returns, and a caller blocked on tokenChan
\* receives a value.
C26_NetworkCallsEnd ==
    /\ (bpc = "auth") ~> (bpc # "auth")
    /\ (proc["p1"].pc = "http") ~> (proc["p1"].pc # "http")
    /\ (proc["p1"].pc = "recv") ~> (proc["p1"].pc # "recv")

\* The client was created without an app id or without a secret.
NoCredentials == appID = "" \/ appSecret = ""

\* The status ServeHTTP answers for the message in service, from the request
\* and the routes alone.
WebhookStatus ==
    IF ~SignatureMatches(srv.wx.token, srv.req.signature,
                         srv.req.timestamp, srv.req.nonce) THEN 401
    ELSE IF Matching = {} THEN 404
    ELSE 200

\* C27: in a client created without an app id or without a secret the two
\* goroutines are never started and the token endpoint is never called, and a
\* caller of RefreshAccessToken is never served; the webhook of any client takes
\* requests, verifies, routes and replies by the request and the routes alone.
C27_WebhookWithoutCredentials ==
    /\ NoCredentials =>
          /\ bpc = "off" /\ tpc = "off"
          /\ iter = NoIter /\ token = ZeroToken
          /\ proc["p1"].reads = 0
    /\ ~NoCredentials => bpc # "off"
    /\ srv.pc = "idle" => ENABLED ServeEvent
    /\ srv.pc = "route" => ENABLED ServeRoute
    /\ srv.pc = "handler" => ENABLED ServeHandler
    /\ srv.pc = "done" =>
          /\ srv.status = WebhookStatus
          /\ srv.handled => srv.invoked = <<CHOOSE i \in Matching :
                                               \A j \in Matching : i <= j>>
          /\ srv.reply.MsgType \in ReplyKinds =>
                /\ srv.reply.header.ToUserName = srv.req.body.FromUserName
                /\ srv.reply.header.FromUserName = srv.req.body.ToUserName

\* A client without a secret answered a message through its second route,
\* while a caller of RefreshAccessToken was waiting.
C27_Witness ==
    /\ appID = "wxid" /\ appSecret = ""
    /\ proc["p1"].pc = "recv"
    /\ srv.pc = "done"
    /\ srv.status = 200
    /\ srv.invoked = <<2>>
    /\ srv.reply.MsgType = "text"

\* C28: when the HTTP call of downloadMedia is answered with a content type
\* other than text/plain, the call returns at once: nil when io.Copy wrote the
\* body to the writer, the error of io.Copy otherwise; no channel receive and
\* no HTTP call follows.  An attempt ends by a decoded envelope (errcode 0,
\* 42001, another errcode, or a body that is not JSON) only for a text/plain
\* answer.
C28_MediaStreamedUnparsed ==
    [][(/\ proc["p1"].pc = "http"
        /\ proc["p1"].op = "downloadMedia"
        /\ proc'["p1"].pc # "http")
       => LET pr == proc["p1"]
              q == proc'["p1"]
              r == q.reply
              how == q.trace[Len(q.trace)]
          IN  /\ r.kind \in {"media", "mediaerr"} =>
                    /\ q.pc = "done"
                    /\ q.reads = pr.reads /\ q.reqs = pr.reqs
                    /\ q.result = Result(IF r.kind = "media" THEN "ok" ELSE "copyerr",
                                         0, ZeroToken)
              /\ how \in {"apierr", "e42001", "badjson"} =>
                    r.kind \in {"envelope", "badjson"}
              /\ r.kind = "envelope" => how = OnErrorCode(r.code)
      ]_vars

\* downloadMedia was answered 42001, then with a media payload, and returned
\* nil after two attempts.
C28_Witness ==
    /\ proc["p1"].pc = "done"
    /\ proc["p1"].op = "downloadMedia"
    /\ proc["p1"].reply.kind = "media"
    /\ proc["p1"].trace = <<"e42001", "ok">>
    /\ proc["p1"].result.kind = "ok"

\* C29: Get of a cache store never returns an error; for a key that is
\* missing, a command that failed and a text that cannot be decoded it returns
\* the zero AccessToken; and Get(k) of the in-memory store returns the value of
\* the last Set(k, v).
C29_GetNeverFails ==
    /\ [](cacheGot.store # "none" =>
            /\ ~cacheGot.err
            /\ cacheGot.found \in {"missing", "storeerr", "undecodable"}
                  => cacheGot.v = ZeroToken)
    /\ [][(cacheGot' # cacheGot /\ cacheGot'.store = "memory")
          => LET k == cacheGot'.k
             IN  /\ k \in DOMAIN lastSet =>
                       cacheGot'.v = lastSet[k] /\ cacheGot'.found = "hit"
                 /\ k \notin DOMAIN lastSet => cacheGot'.found = "missing"
         ]_vars

\* The in-memory store returned the value set under a key for which the Redis
\* server holds a text that is not JSON.
C29_Witness ==
    /\ cacheGot.store = "memory"
    /\ cacheGot.found = "hit"
    /\ cacheGot.k = "k1"
    /\ cacheGot.v = AccessToken("tB", MaxTTL)
    /\ "k1" \in DOMAIN redisData
    /\ redisData["k1"].text = "notjson"

\* The callers that took a value from tokenChan in this step.
Readers ==
    {p \in Procs : proc[p].pc = "recv" /\ proc'[p].reads = proc[p].reads + 1}

\* C30: an iteration of createAccessToken calls the token endpoint exactly when
\* the refresh flag was set, which the same step clears, or the token is
\* expired at the test; otherwise it sends the token it holds.  The token
\* changes only by the answer of the token endpoint.  Each iteration sends one
\* value, the token held, to one caller.
C30_RefreshIffFlagOrExpired ==
    [][/\ (bpc = "check" /\ bpc' # "check") =>
             /\ bpc' = (IF refreshToken = 1 \/ Expired(token, now)
                        THEN "auth" ELSE "send")
             /\ refreshToken' = 0
             /\ token' = token
       /\ (bpc = "auth" /\ bpc' # "auth") => bpc' = "send"
       /\ token' # token => bpc \in {"start", "auth"}
       /\ (bpc \in {"seed", "send"} /\ bpc' # bpc) =>
             /\ bpc' = "check"
             /\ token' = token
             /\ Cardinality(Readers) = 1
             /\ \A p \in Readers :
                   /\ proc'[p].pc # "recv"
                   /\ proc'[p].op # "RefreshAccessToken" => proc'[p].tok = token
             /\ \A p \in Procs \ Readers : proc'[p].pc = proc[p].pc
       /\ Readers # {} => bpc \in {"seed", "send"}
      ]_vars

\* An iteration that found the flag set and the token not expired has called
\* the token endpoint and is about to send.
C30_Witness ==
    /\ bpc = "send"
    /\ iter.swapped
    /\ ~iter.expired
    /\ iter.auth = "ok"
    /\ refreshToken = 0

\* C31: when getJsAPITicket fails (sendGetRequest found no fresh token in its
\* three reads, or the HTTP call failed, or the platform answered an error
\* code, or the reply did not decode), createJsAPITicket's ticket is the same
\* after it as before; that ticket is what the next c <- ticket sends; and the
\* test of the following iteration calls getJsAPITicket again.
C31_FailedTicketRefreshKeepsTicket ==
    [][/\ (tpc = "get" /\ tpc' = "send" /\ titer'.got = "fail")
             => ticket' = ticket
       /\ (tpc = "send" /\ titer.got = "fail" /\ tpc' # tpc)
             => (tpc' = "check" /\ ticket' = ticket)
       /\ (tpc = "check" /\ titer.got = "fail" /\ tpc' # tpc)
             => (tpc' = "get" /\ ticket' = ticket)]_vars

\* A ticket the platform issued has expired, getJsAPITicket has failed, and
\* createJsAPITicket is about to send the ticket it held.
C31_Witness ==
    /\ tpc = "send"
    /\ titer.got = "fail"
    /\ ticket.ticket \in TicketStrings
    /\ now >= ticket.expires

\* C32: a POST whose envelope was decoded goes into the block that decodes,
\* verifies and decrypts exactly when the client has a key and the envelope a
\* non-empty <Encrypt>; otherwise the envelope goes to routeRequest as it is:
\* no msg_signature test (whatever msg_signature the request carries), no
\* base64 decoding, no cipher, and the answer is the router's or the handler's.
C32_DecryptIffKeyAndEncrypt ==
    (/\ srv.pc \in {"cipher", "route", "handler", "done"}
     /\ srv.sigok
     /\ srv.req.method = "POST"
     /\ srv.req.body.kind = "xml")
    => IF EncryptedMode
       THEN \/ srv.pc = "cipher"
            \/ srv.cipher
            \/ srv.pc = "done" /\ srv.status = 400
       ELSE /\ ~srv.cipher /\ ~srv.decrypted
            /\ srv.d = <<>> /\ srv.inner = <<>>
            /\ ~srv.panicked
            /\ srv.pc \in {"route", "handler", "done"}
            /\ srv.pc = "done" => srv.status \in {200, 404}

\* A client with a key was sent an envelope with no <Encrypt> and a
\* msg_signature that does not match: a handler answered it.
C32_Witness ==
    /\ srv.pc = "done"
    /\ srv.status = 200
    /\ srv.req.method = "POST"
    /\ srv.req.body.kind = "xml"
    /\ srv.wx.encodingAESKey = AESKey
    /\ srv.req.body.Encrypt = <<>>
    /\ ~MsgSignatureMatches
    /\ srv.invoked # <<>>

\* The positions of the log that hold an entry of kind e.
Idx(e) == {i \in 1..Len(log) : log[i].e = e}

\* C33: no step of an executor touches wx.refreshToken or createAccessToken's
\* token, whatever the reply, 42001 included; the flag stays 0 when only
\* executors run; and two successive HTTP calls of one executor call carry the
\* same token unless createAccessToken called the token endpoint in between
\* because the token had expired (not because the flag was swapped).
C33_ExecutorNeverInvalidates ==
    /\ [][\A p \in Procs :
             (proc[p].pc \in {"chk", "http"} /\ proc'[p] # proc[p])
             => /\ refreshToken' = refreshToken
                /\ token' = token
                /\ bpc' = bpc /\ iter' = iter]_vars
    /\ [](refreshToken = 0)
    /\ [](\A i \in Idx("send"), k \in Idx("send") :
             (/\ i < k
              /\ log[i].p = log[k].p
              /\ log[k].tok # log[i].tok)
             => \E m \in Idx("auth") : i < m /\ m < k /\ ~log[m].swapped)

\* postRequest was answered 42001 three times and returned "too many times":
\* its three HTTP calls carried one token.
C33_Witness ==
    /\ proc["p1"].pc = "done"
    /\ proc["p1"].op = "postRequest"
    /\ proc["p1"].result = TooMany
    /\ proc["p1"].trace = <<"e42001", "e42001", "e42001">>
    /\ Cardinality(Idx("send")) = 3
    /\ \A i \in Idx("send"), k \in Idx("send") : log[i].tok = log[k].tok
    /\ Idx("auth") # {}

\* The entries of kind e, in the order of the log.
Entries(e) == SelectSeq(log, LAMBDA ev : ev.e = e)

\* C34: createAccessToken has at most one value on offer, and offers the next
\* only when the last was received; the n-th value received from tokenChan is
\* the n-th value createAccessToken reached c <- token with; and a step in which
\* goroutines receive is the step of one goroutine, which takes one value.
C34_RendezvousInPublishOrder ==
    /\ [](LET pubs == Entries("pub")
              rcvs == Entries("recv")
          IN  /\ Len(pubs) = Len(rcvs) + (IF bpc \in {"seed", "send"} THEN 1 ELSE 0)
              /\ \A n \in 1..Len(rcvs) : rcvs[n].tok = pubs[n].tok
              /\ \A n \in 1..Len(rcvs) :
                    \E i \in Idx("pub"), k \in Idx("recv") :
                       /\ i < k
                       /\ Cardinality({j \in Idx("pub") : j <= i}) = n
                       /\ Cardinality({j \in Idx("recv") : j <= k}) = n
                       /\ \A j \in Idx("pub") : ~(i < j /\ j < k))
    /\ [][LET takers == {p \in Procs : proc'[p].reads # proc[p].reads}
          IN  /\ Cardinality(takers) <= 1
              /\ Len(Entries("recv")') = Len(Entries("recv")) + Cardinality(takers)
              /\ \A p \in takers :
                    /\ proc'[p].reads = proc[p].reads + 1
                    /\ bpc \in {"seed", "send"} /\ bpc' = "check"
                    /\ log'[Len(log')].p = p]_vars

\* Two RefreshAccessToken calls waited on tokenChan at once: the first value
\* went to one of them and the next, another value, to the other.
C34_Witness ==
    LET rcvs == Entries("recv")
    IN  /\ Len(rcvs) = 2
        /\ rcvs[1].p # rcvs[2].p
        /\ rcvs[1].tok # rcvs[2].tok
        /\ Cardinality(Idx("flag")) = 2
        /\ \A i \in Idx("flag"), k \in Idx("recv") : i < k

\* C35: when a RefreshAccessToken call has returned (it stored the flag at
\* position f of the log and received at position r), every value received from
\* tokenChan after r was sent after createAccessToken decided, after f, to call
\* the token endpoint.
C35_ReadsAfterRefreshAreRefreshed ==
    \A f \in Idx("flag"), r \in Idx("recv"), k \in Idx("recv") :
        (/\ log[f].p = log[r].p
         /\ f < r
         /\ r < k)
        => \E m \in Idx("auth") : f < m /\ m < k

\* RefreshAccessToken returned with the seed, no call of the token endpoint
\* started while it waited; GetAccessToken then received a value.
C35_Witness ==
    /\ proc["p1"].op = "RefreshAccessToken"
    /\ proc["p1"].pc = "done"
    /\ proc["p1"].authsSince = 0
    /\ proc["p2"].op = "GetAccessToken"
    /\ \E r \in Idx("recv"), k \in Idx("recv") :
          /\ r < k
          /\ log[r].p = "p1"
          /\ log[k].p = "p2"
          /\ \A j \in Idx("recv") : j >= r

\* A trace of k stale reads.
Skips(k) == [n \in 1..k |-> "skip"]

\* C40: GetAccessToken and GetJsAPITicket receive at most retryMaxN times; each
\* returns the value it holds exactly when that value is not expired at its
\* test, having found every earlier one expired; after retryMaxN expired values
\* GetAccessToken returns AccessToken{} and GetJsAPITicket returns "" with the
\* timeout error; so a non-empty value that is returned was not expired when it
\* was tested.
C40_BoundedAccessors ==
    /\ [](LET pr == proc["p1"]
          IN  (pr.op = "GetAccessToken")
              => /\ pr.reads <= retryMaxN
                 /\ pr.pc = "done"
                       => \/ /\ pr.result.kind = "token"
                             /\ pr.reads <= retryMaxN
                             /\ pr.trace = Skips(pr.reads - 1) \o <<"fresh">>
                          \/ /\ pr.result = Result("zero", 0, ZeroToken)
                             /\ pr.reads = retryMaxN
                             /\ pr.trace = Skips(retryMaxN))
    /\ [](/\ jsapi.reads <= retryMaxN
          /\ jsapi.pc = "done"
                => \/ /\ jsapi.result.kind = "ticket"
                      /\ jsapi.trace = Skips(jsapi.reads - 1) \o <<"fresh">>
                   \/ /\ jsapi.result = [kind |-> "timeout", ticket |-> ""]
                      /\ jsapi.reads = retryMaxN
                      /\ jsapi.trace = Skips(retryMaxN))
    /\ [][/\ (proc["p1"].pc = "chk" /\ proc'["p1"].pc # "chk")
                => /\ (proc'["p1"].result.kind = "token") = Fresh(proc["p1"].tok, now)
                   /\ proc'["p1"].result.kind = "token"
                         => proc'["p1"].result.tok = proc["p1"].tok
                   /\ proc'["p1"].result.tok.Token # ""
                         => Fresh(proc["p1"].tok, now)
          /\ (jsapi.pc = "chk" /\ jsapi'.pc # "chk")
                => /\ (jsapi'.result.kind = "ticket") = (now < jsapi.ticket.expires)
                   /\ jsapi'.result.kind = "ticket"
                         => jsapi'.result.ticket = jsapi.ticket.ticket
                   /\ jsapi'.result.ticket # ""
                         => now < jsapi.ticket.expires]_vars

\* GetJsAPITicket has returned the timeout error after three expired tickets,
\* the last of them one the platform had issued.
C40_Witness ==
    /\ jsapi.pc = "done"
    /\ jsapi.result.kind = "timeout"
    /\ jsapi.reads = retryMaxN
    /\ jsapi.ticket.ticket \in TicketStrings

\* C38: createAccessToken has decided to call the token endpoint at most as
\* many times as values were received from tokenChan; between two such
\* decisions a value was received.
C38_NoProactiveRefresh ==
    /\ Cardinality(Idx("auth")) <= Cardinality(Idx("recv"))
    /\ \A i \in Idx("auth"), k \in Idx("auth") :
          i < k => \E r \in Idx("recv") : i < r /\ r < k
    /\ \A k \in Idx("auth") : \E r \in Idx("recv") : r < k
    /\ bpc = "auth" => Idx("auth") # {}

\* The token endpoint is being called for the second time, and two values have
\* been received.
C38_Witness ==
    /\ bpc = "auth"
    /\ Cardinality(Idx("auth")) = 2
    /\ Cardinality(Idx("recv")) = 2

\* C36: on a client created without an app id or without a secret neither
\* background goroutine exists, and a call that reads tokenChan or ticketChan
\* stays in its first receive: it has received nothing, issued no HTTP call
\* and returned nothing, neither a value nor an error, and no step of the
\* program is left that could change that.
C36_NoCredentialsBlocks ==
    NoCredentials
    => /\ bpc = "off" /\ tpc = "off"
       /\ proc["p1"].pc \in {"idle", "recv"}
       /\ proc["p1"].reads = 0 /\ proc["p1"].reqs = 0
       /\ proc["p1"].trace = <<>>
       /\ proc["p1"].result = NoResult
       /\ jsapi.pc \in {"idle", "recv"}
       /\ jsapi.reads = 0
       /\ jsapi.result.kind = "none"
       /\ (proc["p1"].pc = "recv" \/ jsapi.pc = "recv") => ~ENABLED NextCalls

\* A client created with an app id and no secret: postRequest waits in its
\* first receive.
C36_Witness ==
    /\ appID = "wxid"
    /\ appSecret = ""
    /\ proc["p1"].op = "postRequest"
    /\ proc["p1"].pc = "recv"

\* C37: each HTTP call of one uploadMedia call carries what its io.Copy read
\* from the caller's reader: the first carries everything the reader held, and
\* every later one, made after a 42001 reply, carries no file bytes, the
\* reader being at its end.
C37_RetryUploadsNoBytes ==
    LET pr == proc["p1"]
    IN  (pr.op = "uploadMedia")
        => /\ Len(upload.posted) = pr.reqs
           /\ Len(upload.posted) >= 1
                 => /\ upload.posted[1] = upload.reader.data
                    /\ upload.reader.pos = Len(upload.reader.data)
           /\ \A n \in 2..Len(upload.posted) :
                 /\ upload.posted[n] = <<>>
                 /\ pr.trace[Len(pr.trace) - (IF pr.pc \in {"http", "chk"} THEN 0 ELSE 1)]
                       \in {"e42001", "skip"}

\* The first HTTP call carried the file and was answered 42001; the second
\* carried no file bytes and was answered with errcode 0: uploadMedia returned
\* the media id.
C37_Witness ==
    /\ proc["p1"].op = "uploadMedia"
    /\ proc["p1"].pc = "done"
    /\ proc["p1"].result.kind = "ok"
    /\ Len(upload.posted) = 2
    /\ upload.posted[1] = <<7, 8>>
    /\ upload.posted[2] = <<>>
    /\ proc["p1"].trace[Len(proc["p1"].trace) - 1] = "e42001"

\* C39: with credentials and HTTP calls that return, createAccessToken can take
\* its next step whenever it is not at a send, whatever createJsAPITicket and
\* the callers wait for, and at a send it can hand its token to whichever
\* goroutine waits; and a goroutine that waits in a receive from tokenChan
\* (a caller, or createJsAPITicket inside sendGetRequest) or from ticketChan
\* receives.
C39_NoDeadlock ==
    /\ [](/\ bpc \in {"start", "check", "auth"}
             => ENABLED (BStart \/ BCheck \/ BAuth)
          /\ \A g \in {TicketProc, "p1"} :
                (bpc \in {"seed", "send"} /\ proc[g].pc = "recv")
                => ENABLED Deliver(g)
          /\ ENABLED NextLive)
    /\ \A g \in {TicketProc, "p1"} :
          (proc[g].pc = "recv") ~> (proc[g].pc # "recv")
    /\ (jsapi.pc = "recv") ~> (jsapi.pc # "recv")

\* createJsAPITicket waits for a token inside getJsAPITicket while a
\* GetJsAPITicket call waits for the ticket and a GetAccessToken call waits for
\* a token, and createAccessToken is calling the token endpoint.
C39_Witness ==
    /\ proc[TicketProc].pc = "recv"
    /\ tpc = "get"
    /\ jsapi.pc = "recv"
    /\ proc["p1"].pc = "recv"
    /\ bpc = "auth"

====
